---- MODULE Spec2Model ----
(***************************************************************************)
(* Model of the Rockchip MPP hardware JPEG encoder adapter of uStreamer    *)
(* (src/ustreamer/encoders/mpp/encoder.c) together with the two global     *)
(* switches it consults: the text overlay (libs/overlay.c) and the         *)
(* blocking mode (libs/blocking.h, libs/blocking.c).                       *)
(*                                                                         *)
(* One adapter is pinned to one worker thread, so every public operation   *)
(* of the adapter is one atomic action.  The vendor library is modelled    *)
(* as a heap of objects (context, buffer group, DMA buffers) and as a      *)
(* nondeterministic choice of the vendor call that fails.  The sequence    *)
(* of vendor calls and CPU writes made by the last operation is kept in    *)
(* the variable trace, in program order.                                   *)
(***************************************************************************)
EXTENDS Integers, Sequences, FiniteSets, TLC

VARIABLES
    life,               \* "none" | "alive" | "destroyed": lifetime of the us_mpp_encoder_s
    enc,                \* the fields of us_mpp_encoder_s
    heap,               \* vendor objects, indexed by handle
    uaf,                \* TRUE once a vendor call was made on a handle that is not live
    dfree,              \* TRUE once a handle that is not live was released
    trace,              \* vendor calls and CPU writes of the last operation, in order
    op,                 \* the operation that has just returned ("none": the worker is idle)
    ret,                \* its return value
    src,                \* the source frame of that compress
    target,             \* target_width, target_height that compress resolved for it
    dest,               \* the output frame handed to compress
    now,                \* monotonic clock (one tick per compress)
    us_g_encode_scale,  \* global scale policy
    us_g_overlay,       \* TRUE iff the global overlay pointer is not NULL
    us_g_blocking,      \* the global blocking pointer (null: it is NULL) and the flags behind it
    pc,                 \* per thread: the place in the library function it executes ("idle": none)
    local,              \* per thread: the arguments and locals of that function
    mutex,              \* per mutex: the thread that holds it ("free": none)
    blocking_config,    \* us_g_blocking->config apart from enabled
    overlay_config,     \* us_g_overlay->config
    raw_frame,          \* the statics _raw_frame_buf, _raw_frame_width, ... of blocking.c
    ft                  \* the statics _ft_initialized, _ft_face_vocab, _ft_face_stats

vars == <<life, enc, heap, uaf, dfree, trace, op, ret, src, target, dest, now,
          us_g_encode_scale, us_g_overlay, us_g_blocking,
          pc, local, mutex, blocking_config, overlay_config, raw_frame, ft>>

encVars == <<life, enc, heap, uaf, dfree, trace, op, ret, src, target, dest, now>>

\* the state of libs/overlay.c and libs/blocking.c that their threads work on
libVars == <<pc, local, mutex, blocking_config, overlay_config, raw_frame, ft>>

(***************************************************************************)
(* Bounds                                                                  *)
(***************************************************************************)
MaxCalls == 2

(***************************************************************************)
(* Program constants                                                       *)
(***************************************************************************)
NULL == 0
MPP_OK == 0
PktLen == 1024

\* the bytes of memory that has been allocated and not written: anything
Uninitialized == -1

V4L2Formats == {"NV12", "NV16", "NV24", "YUYV", "UYVY", "RGB24", "BGR24", "JPEG"}

\* the frames the capture side hands to compress: every format at 1920x1080, NV12 also
\* at a size that is not a multiple of 16 and at 4K, BGR24 also at 4K
FrameShapes == {<<1920, 1080, f>> : f \in V4L2Formats}
               \cup {<<1000, 600, "NV12">>, <<3840, 2160, "NV12">>, <<3840, 2160, "BGR24">>}

ScalePolicies == {"US_ENCODE_SCALE_NATIVE", "US_ENCODE_SCALE_1080P",
                  "US_ENCODE_SCALE_2K", "US_ENCODE_SCALE_4K"}

Qualities == {80}

\* the vendor call of a compress that fails ("none": all succeed)
FailPoints == {"none", "mpp_create", "mpp_init", "mpp_enc_cfg_init", "MPP_ENC_GET_CFG",
               "MPP_ENC_SET_CFG", "mpp_buffer_group_get_internal", "frame_buf", "pkt_buf",
               "mpp_frame_init", "mpp_buffer_get_ptr", "encode_put_frame",
               "encode_get_packet", "packet_null", "packet_pos_null", "packet_len_zero"}

(***************************************************************************)
(* Pure helpers                                                            *)
(***************************************************************************)
\* MPP_ALIGN without the "+ (a) - 1": rounds down
MPP_ALIGN_rounds_down(x, a) == x - (x % a)

\* MPP_ALIGN(x, a) = ((x + a - 1) & ~(a - 1)), a a power of two.  The frame sizes of
\* the model keep every product of this file below 2^31, so no uint operation wraps.
MPP_ALIGN(x, a) ==
    LET s == x + a - 1 IN s - (s % a)

\* _v4l2_to_mpp_format whose default case returns the first vendor format
_v4l2_to_mpp_format_default_nv12(v4l2_format) ==
    CASE v4l2_format = "NV12"  -> "MPP_FMT_YUV420SP"
      [] v4l2_format = "NV16"  -> "MPP_FMT_YUV422SP"
      [] v4l2_format = "NV24"  -> "MPP_FMT_YUV444SP"
      [] v4l2_format = "YUYV"  -> "MPP_FMT_YUV422_YUYV"
      [] v4l2_format = "UYVY"  -> "MPP_FMT_YUV422_UYVY"
      [] v4l2_format = "RGB24" -> "MPP_FMT_RGB888"
      [] v4l2_format = "BGR24" -> "MPP_FMT_BGR888"
      [] OTHER                 -> "MPP_FMT_YUV420SP"

_v4l2_to_mpp_format(v4l2_format) ==
    CASE v4l2_format = "NV12"  -> "MPP_FMT_YUV420SP"
      [] v4l2_format = "NV16"  -> "MPP_FMT_YUV422SP"
      [] v4l2_format = "NV24"  -> "MPP_FMT_YUV444SP"
      [] v4l2_format = "YUYV"  -> "MPP_FMT_YUV422_YUYV"
      [] v4l2_format = "UYVY"  -> "MPP_FMT_YUV422_UYVY"
      [] v4l2_format = "RGB24" -> "MPP_FMT_RGB888"
      [] v4l2_format = "BGR24" -> "MPP_FMT_BGR888"
      [] OTHER                 -> "MPP_FMT_BUTT"

\* the switch of _get_target_resolution whose native case leaves out the format test
ScaleRule_native_ignores_format(scale, f) ==
    CASE scale = "US_ENCODE_SCALE_1080P" -> <<1920, 1080>>
      [] scale = "US_ENCODE_SCALE_2K"    -> <<2560, 1440>>
      [] scale = "US_ENCODE_SCALE_4K"    -> <<f.width, f.height>>
      [] OTHER ->
            IF f.width >= 3840 /\ f.height >= 2160
            THEN <<1920, 1080>>
            ELSE <<f.width, f.height>>

\* the switch of _get_target_resolution: the target before the final clamp
ScaleRule(scale, f) ==
    CASE scale = "US_ENCODE_SCALE_1080P" -> <<1920, 1080>>
      [] scale = "US_ENCODE_SCALE_2K"    -> <<2560, 1440>>
      [] scale = "US_ENCODE_SCALE_4K"    -> <<f.width, f.height>>
      [] OTHER ->
            IF f.width >= 3840 /\ f.height >= 2160 /\ f.format = "NV12"
            THEN <<1920, 1080>>
            ELSE <<f.width, f.height>>

\* _get_target_resolution that clamps the width only
_get_target_resolution_clamps_width_only(scale, f) ==
    LET t == ScaleRule(scale, f)
    IN <<IF t[1] > f.width THEN f.width ELSE t[1], t[2]>>

_get_target_resolution(scale, f) ==
    LET t == ScaleRule(scale, f)
        tw == IF t[1] > f.width THEN f.width ELSE t[1]
        th == IF t[2] > f.height THEN f.height ELSE t[2]
    IN <<tw, th>>

\* the switch of _mpp_encoder_prepare that sizes the frame DMA buffer
FrameSize(mpp_format, hor_stride, ver_stride) ==
    LET area == hor_stride * ver_stride IN
    CASE mpp_format = "MPP_FMT_YUV420SP"    -> (area * 3) \div 2
      [] mpp_format = "MPP_FMT_YUV422SP"    -> area * 2
      [] mpp_format = "MPP_FMT_YUV444SP"    -> area * 3
      [] mpp_format = "MPP_FMT_BGR888"      -> area * 3
      [] mpp_format = "MPP_FMT_RGB888"      -> area * 3
      [] mpp_format = "MPP_FMT_YUV422_YUYV" -> area * 2
      [] mpp_format = "MPP_FMT_YUV422_UYVY" -> area * 2
      [] OTHER                              -> area * 3

\* used bytes of a captured frame: the exact byte count of its format and size
FrameUsed(format, w, h) ==
    CASE format = "NV12"            -> w * h + (w * h) \div 2
      [] format \in {"NV16", "YUYV", "UYVY"} -> w * h * 2
      [] format \in {"NV24", "RGB24", "BGR24"} -> w * h * 3
      [] OTHER                      -> (w * h) \div 8

SrcFrames ==
    {[width |-> d[1], height |-> d[2], format |-> d[3], used |-> FrameUsed(d[3], d[1], d[2])] :
        d \in FrameShapes}

(***************************************************************************)
(* The vendor heap.  A handle is an index of heap; NULL is 0.  A released  *)
(* slot is free and the allocator hands out the lowest free slot again,    *)
(* as an allocator reuses addresses.                                       *)
(***************************************************************************)
\* the bytes of a buffer: image stands for the bytes that the last copy into it wrote
\* (the time of the compress call that wrote them, 0 when they are zero), rest for all
\* its other bytes
NoBytes == [image |-> Uninitialized, rest |-> Uninitialized]

FreeObj == [kind |-> "free", size |-> 0, data |-> NoBytes]

Live(h, id) == id # NULL /\ id <= Len(h) /\ h[id].kind # "free"

FreeSlot(h) ==
    IF \E i \in 1..Len(h) : h[i].kind = "free"
    THEN CHOOSE i \in 1..Len(h) : h[i].kind = "free" /\ \A j \in 1..(i - 1) : h[j].kind # "free"
    ELSE Len(h) + 1

\* the work state threaded through the code of one operation is a record
\* [enc, heap, uaf, dfree, trace, dest]; Ev appends one call to the trace
Ev(st, name, arg) == [st EXCEPT !.trace = Append(@, <<name, arg>>)]

\* a vendor call that works on handle id
Use(st, name, id) ==
    Ev([st EXCEPT !.uaf = @ \/ ~Live(st.heap, id)], name, id)

\* a vendor call that acquires an object; its handle is FreeSlot(st.heap)
Acquire(st, name, kind, size) ==
    LET id == FreeSlot(st.heap)
        obj == [kind |-> kind, size |-> size, data |-> NoBytes]
    IN Ev([st EXCEPT !.heap = IF id > Len(@) THEN Append(@, obj) ELSE [@ EXCEPT ![id] = obj]],
          name, id)

\* a vendor call that releases the object behind handle id
Release(st, name, id) ==
    IF Live(st.heap, id)
    THEN Ev([st EXCEPT !.heap[id] = FreeObj], name, id)
    ELSE Ev([st EXCEPT !.dfree = TRUE], name, id)

(***************************************************************************)
(* encoder.c.  The code of a function is a chain of steps; each step is an *)
(* operator on the work state that ends in the step that follows it, so    *)
(* the steps of a function are listed last step first.                     *)
(***************************************************************************)
\* _mpp_encoder_cleanup: the four releases
PutPacketBuffer(s) ==
    IF s.enc.pkt_buf # NULL
    THEN [Release(s, "mpp_buffer_put", s.enc.pkt_buf) EXCEPT !.enc.pkt_buf = NULL]
    ELSE s

PutFrameBuffer(s) ==
    IF s.enc.frame_buf # NULL
    THEN [Release(s, "mpp_buffer_put", s.enc.frame_buf) EXCEPT !.enc.frame_buf = NULL]
    ELSE s

PutBufferGroup(s) ==
    IF s.enc.buf_grp # NULL
    THEN [Release(s, "mpp_buffer_group_put", s.enc.buf_grp) EXCEPT !.enc.buf_grp = NULL]
    ELSE s

DestroyContext(s) ==
    IF s.enc.mpp_ctx # NULL
    THEN [Release(s, "mpp_destroy", s.enc.mpp_ctx) EXCEPT !.enc.mpp_ctx = NULL, !.enc.mpi = NULL]
    ELSE s

\* _mpp_encoder_cleanup: entry (ready = false) and exit (width = height = 0)
CleanupEntry(s) == Ev([s EXCEPT !.enc.ready = FALSE], "_mpp_encoder_cleanup", 0)

CleanupExit(s) == [s EXCEPT !.enc.width = 0, !.enc.height = 0]

\* _mpp_encoder_cleanup without the release of the buffer group
_mpp_encoder_cleanup_keeps_group(st) ==
    CleanupExit(DestroyContext(PutFrameBuffer(PutPacketBuffer(CleanupEntry(st)))))

\* _mpp_encoder_cleanup that releases the frame buffer before the packet buffer
_mpp_encoder_cleanup_frame_first(st) ==
    CleanupExit(DestroyContext(PutBufferGroup(PutPacketBuffer(PutFrameBuffer(
        CleanupEntry(st))))))

_mpp_encoder_cleanup(st) ==
    CleanupExit(DestroyContext(PutBufferGroup(PutFrameBuffer(PutPacketBuffer(
        CleanupEntry(st))))))

\* the label error: of _mpp_encoder_prepare; the result of prepare is [st, ret]
PrepareError(s) == [st |-> _mpp_encoder_cleanup(s), ret |-> -1]

\* "Allocate packet buffer", then ready = true
AllocPacketBuffer(s, fail) ==
    IF fail = "pkt_buf"
    THEN PrepareError(Use(s, "mpp_buffer_get", s.enc.buf_grp))
    ELSE [st |-> [Acquire(Use(s, "mpp_buffer_get", s.enc.buf_grp), "pkt_buf", "buf",
                          s.enc.width * s.enc.height)
                     EXCEPT !.enc.pkt_buf = FreeSlot(s.heap), !.enc.ready = TRUE],
          ret |-> 0]

\* "Calculate buffer sizes" and the allocation of the frame buffer
AllocFrameBuffer(s, fail) ==
    IF fail = "frame_buf"
    THEN PrepareError(Use(s, "mpp_buffer_get", s.enc.buf_grp))
    ELSE AllocPacketBuffer(
            [Acquire(Use(s, "mpp_buffer_get", s.enc.buf_grp), "frame_buf", "buf",
                     FrameSize(s.enc.mpp_format, s.enc.hor_stride, s.enc.ver_stride))
                EXCEPT !.enc.frame_buf = FreeSlot(s.heap)], fail)

\* "Create buffer group"
CreateBufferGroup(s, fail) ==
    IF fail = "mpp_buffer_group_get_internal"
    THEN PrepareError(Ev(s, "mpp_buffer_group_get_internal", NULL))
    ELSE AllocFrameBuffer([Acquire(s, "mpp_buffer_group_get_internal", "grp", 0)
                              EXCEPT !.enc.buf_grp = FreeSlot(s.heap)], fail)

\* jpeg:quant of _mpp_encoder_prepare
MppQuality(quality) ==
    IF quality < 1 THEN 1 ELSE IF quality > 99 THEN 99 ELSE quality

\* "Apply config": the config object cfg is released whether or not the call fails
ApplyConfig(s, cfg, fail) ==
    IF fail = "MPP_ENC_SET_CFG"
    THEN PrepareError(Release(Use(s, "MPP_ENC_SET_CFG", s.enc.mpp_ctx),
                              "mpp_enc_cfg_deinit", cfg))
    ELSE CreateBufferGroup(Release(Use(s, "MPP_ENC_SET_CFG", s.enc.mpp_ctx),
                                   "mpp_enc_cfg_deinit", cfg), fail)

\* "Get default config" and the prep, rc and codec fields
GetConfig(s, cfg, fail) ==
    IF fail = "MPP_ENC_GET_CFG"
    THEN PrepareError(Release(Use(s, "MPP_ENC_GET_CFG", s.enc.mpp_ctx),
                              "mpp_enc_cfg_deinit", cfg))
    ELSE ApplyConfig(Ev(Use(s, "MPP_ENC_GET_CFG", s.enc.mpp_ctx),
                        "jpeg:quant", MppQuality(s.enc.quality)), cfg, fail)

\* "Configure encoder": mpp_enc_cfg_init
InitConfig(s, fail) ==
    IF fail = "mpp_enc_cfg_init"
    THEN PrepareError(Ev(s, "mpp_enc_cfg_init", NULL))
    ELSE GetConfig(Acquire(s, "mpp_enc_cfg_init", "cfg", 0), FreeSlot(s.heap), fail)

\* "Initialize for MJPEG encoding"
InitContext(s, fail) ==
    IF fail = "mpp_init"
    THEN PrepareError(Use(s, "mpp_init", s.enc.mpp_ctx))
    ELSE InitConfig(Use(s, "mpp_init", s.enc.mpp_ctx), fail)

\* "Create MPP context"
CreateContext(s, fail) ==
    IF fail = "mpp_create"
    THEN PrepareError(Ev(s, "mpp_create", NULL))
    ELSE InitContext([Acquire(s, "mpp_create", "ctx", 0)
                         EXCEPT !.enc.mpp_ctx = FreeSlot(s.heap), !.enc.mpi = 1], fail)

\* "Store configuration" and "Calculate strides"
StoreConfiguration(s, width, height, mpp_format) ==
    [s EXCEPT !.enc.width = width,
              !.enc.height = height,
              !.enc.mpp_format = mpp_format,
              !.enc.hor_stride = MPP_ALIGN(width, 16),
              !.enc.ver_stride = MPP_ALIGN(height, 16)]

\* _mpp_encoder_prepare whose "already configured" test leaves out the format
_mpp_encoder_prepare_ignores_format(st, width, height, format, fail) ==
    IF _v4l2_to_mpp_format(format) = "MPP_FMT_BUTT" THEN [st |-> st, ret |-> -1] ELSE
    IF /\ st.enc.ready
       /\ st.enc.width = width
       /\ st.enc.height = height
    THEN [st |-> st, ret |-> 0]
    ELSE CreateContext(StoreConfiguration(_mpp_encoder_cleanup(st), width, height,
                                          _v4l2_to_mpp_format(format)), fail)

_mpp_encoder_prepare(st, width, height, format, fail) ==
    IF _v4l2_to_mpp_format(format) = "MPP_FMT_BUTT" THEN [st |-> st, ret |-> -1] ELSE
    IF /\ st.enc.ready
       /\ st.enc.width = width
       /\ st.enc.height = height
       /\ st.enc.mpp_format = _v4l2_to_mpp_format(format)
    THEN [st |-> st, ret |-> 0]
    ELSE CreateContext(StoreConfiguration(_mpp_encoder_cleanup(st), width, height,
                                          _v4l2_to_mpp_format(format)), fail)

\* libs/frame.c: the time stamps and the data of the output frame
us_frame_encoding_begin(d, format, t) ==
    [d EXCEPT !.encode_begin_ts = t, !.format = format]

us_frame_set_data(d, len) == [d EXCEPT !.used = len]

us_frame_encoding_end(d, t) == [d EXCEPT !.encode_end_ts = t]

\* a failing return that marks the adapter as not configured
CompressError_clears_ready(s) == [st |-> [s EXCEPT !.enc.ready = FALSE], ret |-> -1]

\* a failing return of us_mpp_encoder_compress; the result of compress is [st, ret]
CompressError(s) == [st |-> s, ret |-> -1]

\* the end of compress with the frame descriptor released before the packet
FinishCompress_frame_first(s, mpp_frame, mpp_packet, t) ==
    [st |-> Ev([Release(Release(s, "mpp_frame_deinit", mpp_frame),
                        "mpp_packet_deinit", mpp_packet)
                   EXCEPT !.dest = us_frame_encoding_end(@, t)],
               "us_frame_encoding_end", 0),
     ret |-> 0]

\* the end of us_mpp_encoder_compress: both descriptors are released, the end time is set
FinishCompress(s, mpp_frame, mpp_packet, t) ==
    [st |-> Ev([Release(Release(s, "mpp_packet_deinit", mpp_packet),
                        "mpp_frame_deinit", mpp_frame)
                   EXCEPT !.dest = us_frame_encoding_end(@, t)],
               "us_frame_encoding_end", 0),
     ret |-> 0]

\* the test of the packet without "pkt_len > 0"
PacketHasData_ignores_length(pkt_ptr, pkt_len) == pkt_ptr # NULL

\* the test that a retrieved packet carries data
PacketHasData(pkt_ptr, pkt_len) == pkt_ptr # NULL /\ pkt_len > 0

\* the packet is stored in the output frame
StorePacket(s, pkt_len) ==
    Ev([s EXCEPT !.dest = [us_frame_set_data(@, pkt_len) EXCEPT !.key = TRUE, !.gop = 0]],
       "us_frame_set_data", pkt_len)

\* "if (mpp_packet != NULL)" with a packet at handle mpp_packet
TakePacket(s, mpp_frame, mpp_packet, pkt_ptr, pkt_len, t) ==
    IF PacketHasData(pkt_ptr, pkt_len)
    THEN FinishCompress(StorePacket(s, pkt_len), mpp_frame, mpp_packet, t)
    ELSE CompressError(Release(Release(s, "mpp_packet_deinit", mpp_packet),
                               "mpp_frame_deinit", mpp_frame))

\* encode_get_packet and what the vendor hands back
GetPacket(s, mpp_frame, fail, t) ==
    IF fail \in {"encode_get_packet", "packet_null"}
    THEN CompressError(Release(Use(s, "encode_get_packet", s.enc.mpp_ctx),
                               "mpp_frame_deinit", mpp_frame))
    ELSE TakePacket(Acquire(Use(s, "encode_get_packet", s.enc.mpp_ctx),
                            "mpp_packet", "packet", 0),
                    mpp_frame, FreeSlot(s.heap),
                    IF fail = "packet_pos_null" THEN NULL ELSE 1,
                    IF fail = "packet_len_zero" THEN 0 ELSE PktLen, t)

\* "Encode": encode_put_frame
PutFrame(s, mpp_frame, fail, t) ==
    IF fail = "encode_put_frame"
    THEN CompressError(Release(Use(s, "encode_put_frame", s.enc.mpp_ctx),
                               "mpp_frame_deinit", mpp_frame))
    ELSE GetPacket(Use(s, "encode_put_frame", s.enc.mpp_ctx), mpp_frame, fail, t)

\* the binding of the buffer without the cache-sync
SyncAndBind_without_sync(s) ==
    Use(s, "mpp_frame_set_buffer", s.enc.frame_buf)

\* "Sync buffer to device" and the binding of the buffer to the frame descriptor
SyncAndBind(s) ==
    Use(Use(s, "mpp_buffer_sync_end", s.enc.frame_buf),
        "mpp_frame_set_buffer", s.enc.frame_buf)

\* "Apply text overlay if enabled (for NV12 format only)"
ApplyOverlay(s, f, overlay) ==
    IF f.format = "NV12" /\ overlay
    THEN Use(s, "us_overlay_draw_nv12", s.enc.frame_buf)
    ELSE s

\* a write of the frame of the call at time t into the frame DMA buffer: the bytes it
\* writes are its own, the others are what they were, bytes of an earlier copy among
\* them
WriteFrame(s, t) ==
    IF Live(s.heap, s.enc.frame_buf)
    THEN [s EXCEPT !.heap[s.enc.frame_buf].data =
                      [image |-> t, rest |-> IF @.image # 0 THEN @.image ELSE @.rest]]
    ELSE s

\* the copy of the source into the frame DMA buffer, by format and needs_downscale
CopyFrameData(s, f, needs_downscale, t) ==
    IF needs_downscale /\ f.format = "NV12"
    THEN WriteFrame(Use(s, "_downscale_nv12", s.enc.frame_buf), t)
    ELSE IF f.format = "NV12"
         THEN WriteFrame(Use(s, "_copy_nv12_aligned", s.enc.frame_buf), t)
         ELSE WriteFrame(Use(s, "memcpy", s.enc.frame_buf), t)

\* the size of the buffer is read and nothing is cleared
ZeroFill_reads_size_only(s) == Use(s, "mpp_buffer_get_size", s.enc.frame_buf)

\* "Clear buffer to avoid artifacts from padding areas": memset(buf_ptr, 0, buf_size)
ZeroFill(s) ==
    IF Live(s.heap, s.enc.frame_buf)
    THEN [Use(Use(s, "mpp_buffer_get_size", s.enc.frame_buf), "memset", s.enc.frame_buf)
             EXCEPT !.heap[s.enc.frame_buf].data = [image |-> 0, rest |-> 0]]
    ELSE Use(Use(s, "mpp_buffer_get_size", s.enc.frame_buf), "memset", s.enc.frame_buf)

\* "Clear buffer", "Copy frame data to MPP buffer", overlay, cache-sync
FillBuffer(s, mpp_frame, f, needs_downscale, fail, overlay, t) ==
    IF f.format # "NV12"
       /\ f.used > (IF Live(s.heap, s.enc.frame_buf) THEN s.heap[s.enc.frame_buf].size ELSE 0)
    THEN CompressError(Release(ZeroFill(s), "mpp_frame_deinit", mpp_frame))
    ELSE PutFrame(
            SyncAndBind(ApplyOverlay(CopyFrameData(ZeroFill(s), f, needs_downscale, t),
                                     f, overlay)),
            mpp_frame, fail, t)

\* mpp_buffer_get_ptr
GetBufferPtr(s, mpp_frame, f, needs_downscale, fail, overlay, t) ==
    IF fail = "mpp_buffer_get_ptr"
    THEN CompressError(Release(Use(s, "mpp_buffer_get_ptr", s.enc.frame_buf),
                               "mpp_frame_deinit", mpp_frame))
    ELSE FillBuffer(Use(s, "mpp_buffer_get_ptr", s.enc.frame_buf),
                    mpp_frame, f, needs_downscale, fail, overlay, t)

\* "Create input frame": the part of us_mpp_encoder_compress that follows a successful
\* prepare of a ready encoder
CompressFrame(s, f, tgt, fail, overlay, t) ==
    IF fail = "mpp_frame_init"
    THEN CompressError(Ev(s, "mpp_frame_init", NULL))
    ELSE GetBufferPtr(Acquire(s, "mpp_frame_init", "frame", 0), FreeSlot(s.heap), f,
                      tgt[1] # f.width \/ tgt[2] # f.height, fail, overlay, t)

\* the two tests that follow _mpp_encoder_prepare, whose result is p
AfterPrepare(p, f, tgt, fail, overlay, t) ==
    IF p.ret < 0 THEN CompressError(p.st) ELSE
    IF ~p.st.enc.ready THEN CompressError(p.st) ELSE
    CompressFrame(p.st, f, tgt, fail, overlay, t)

\* us_mpp_encoder_compress from its entry, with the resolved target tgt
CompressTo(st, tgt, f, fail, overlay, t) ==
    AfterPrepare(
        _mpp_encoder_prepare(
            Ev([st EXCEPT !.dest = us_frame_encoding_begin(@, "JPEG", t)],
               "us_frame_encoding_begin", 0),
            tgt[1], tgt[2], f.format, fail),
        f, tgt, fail, overlay, t)

\* us_mpp_encoder_compress as a function of the state and its inputs;
\* the result is [res, target] with res = [st, ret]
Compress(st, scale, f, fail, overlay, t) ==
    [res |-> CompressTo(st, _get_target_resolution(scale, f), f, fail, overlay, t),
     target |-> _get_target_resolution(scale, f)]

(***************************************************************************)
(* State machine                                                           *)
(***************************************************************************)
\* the us_mpp_encoder_s as US_CALLOC leaves it
ZeroEnc == [quality |-> 0, mpp_ctx |-> NULL, mpi |-> NULL, buf_grp |-> NULL,
            frame_buf |-> NULL, pkt_buf |-> NULL, width |-> 0, height |-> 0,
            hor_stride |-> 0, ver_stride |-> 0, mpp_format |-> "MPP_FMT_YUV420SP",
            ready |-> FALSE]

\* the output frame of the caller as us_frame_init leaves it
ZeroFrame == [used |-> 0, format |-> "NONE", key |-> FALSE, gop |-> 0,
              encode_begin_ts |-> 0, encode_end_ts |-> 0]

\* us_g_blocking == NULL
NullBlocking == [null |-> TRUE, enabled |-> FALSE, enabled_fast |-> FALSE]

NoFrame == [width |-> 0, height |-> 0, format |-> "NONE", used |-> 0]

\* the threads that call into libs/overlay.c and libs/blocking.c: HTTP handlers (api),
\* encoder workers, the snapshot endpoint (reader)
Threads == {"api1", "api2", "worker1", "worker2", "reader"}

Mutexes == {"us_g_blocking->mutex", "us_g_overlay->mutex", "_ft_mutex", "_raw_frame_mutex"}

\* the locals of a thread that is in no library function: the calls it has made, the
\* last return value
NoLocals == [calls |-> 0, ret |-> 0]

\* us_g_blocking->config as us_blocking_init leaves it; background, bg_width and
\* bg_height hold the number of the upload that wrote them (0: none), the texts are
\* "" or a string
ZeroBlockingConfig ==
    [background |-> 0, bg_width |-> 0, bg_height |-> 0, bg_valid |-> FALSE,
     preview_x |-> 0, preview_y |-> 0, preview_w |-> 0, preview_h |-> 0,
     preview_enabled |-> FALSE, text_vocab |-> "", text_stats |-> "",
     text_vocab_scale |-> 10, text_stats_scale |-> 4]

\* us_g_overlay->config as us_overlay_init leaves it; position, x and y hold the number
\* of the us_overlay_set_position call that wrote them (0: none)
ZeroOverlayConfig ==
    [enabled |-> FALSE, text |-> "", position |-> 0, x |-> 0, y |-> 0, scale |-> 2]

\* the raw-frame statics as the loader leaves them; buf is NULL or the number of the
\* frame whose bytes it holds
ZeroRawFrame == [buf |-> NULL, width |-> 0, height |-> 0, stride |-> 0, size |-> 0,
                 valid |-> FALSE]

\* the FreeType statics as the loader leaves them
ZeroFt == [initialized |-> FALSE, face_vocab |-> FALSE, face_stats |-> FALSE]

\* no thread is in a library function
LibIdle ==
    /\ pc = [t \in Threads |-> "idle"]
    /\ local = [t \in Threads |-> NoLocals]
    /\ mutex = [m \in Mutexes |-> "free"]
    /\ blocking_config = ZeroBlockingConfig
    /\ overlay_config = ZeroOverlayConfig
    /\ raw_frame = ZeroRawFrame
    /\ ft = ZeroFt

Init ==
    /\ life = "none"
    /\ enc = ZeroEnc
    /\ heap = <<>>
    /\ uaf = FALSE
    /\ dfree = FALSE
    /\ trace = <<>>
    /\ op = "none"
    /\ ret = 0
    /\ src = NoFrame
    /\ target = <<0, 0>>
    /\ dest = ZeroFrame
    /\ now = 0
    /\ us_g_encode_scale \in ScalePolicies
    /\ us_g_overlay = FALSE
    /\ us_g_blocking = NullBlocking
    /\ LibIdle

us_mpp_jpeg_encoder_init ==
    /\ life = "none"
    /\ \E quality \in Qualities :
          enc' = [ZeroEnc EXCEPT !.quality = quality, !.ready = FALSE]
    /\ life' = "alive"
    /\ UNCHANGED <<heap, uaf, dfree, trace, op, ret, src, target, dest, now,
                   us_g_encode_scale, us_g_overlay, us_g_blocking>>
    /\ UNCHANGED libVars

us_mpp_encoder_compress ==
    /\ life = "alive"
    /\ op = "none"
    /\ now < MaxCalls
    /\ \E f \in SrcFrames, fail \in FailPoints :
          \E r \in {Compress([enc |-> enc, heap |-> heap, uaf |-> uaf, dfree |-> dfree,
                                trace |-> <<>>, dest |-> dest],
                               us_g_encode_scale, f, fail, us_g_overlay, now + 1)} :
             /\ enc' = r.res.st.enc
             /\ heap' = r.res.st.heap
             /\ uaf' = r.res.st.uaf
             /\ dfree' = r.res.st.dfree
             /\ trace' = r.res.st.trace
             /\ dest' = r.res.st.dest
             /\ ret' = r.res.ret
             /\ src' = f
             /\ target' = r.target
    /\ now' = now + 1
    /\ op' = "compress"
    /\ UNCHANGED <<life, us_g_encode_scale, us_g_overlay, us_g_blocking>>
    /\ UNCHANGED libVars

\* the worker takes the result of the compress that has returned and is idle again
WorkerNextFrame ==
    /\ op = "compress"
    /\ op' = "none"
    /\ ret' = 0
    /\ src' = NoFrame
    /\ target' = <<0, 0>>
    /\ trace' = <<>>
    /\ UNCHANGED <<life, enc, heap, uaf, dfree, dest, now,
                   us_g_encode_scale, us_g_overlay, us_g_blocking>>
    /\ UNCHANGED libVars

us_mpp_encoder_destroy ==
    /\ life = "alive"
    /\ op = "none"
    /\ \E r \in {_mpp_encoder_cleanup([enc |-> enc, heap |-> heap, uaf |-> uaf,
                                         dfree |-> dfree, trace |-> <<>>, dest |-> dest])} :
          /\ enc' = r.enc
          /\ heap' = r.heap
          /\ uaf' = r.uaf
          /\ dfree' = r.dfree
          /\ trace' = r.trace
    /\ life' = "destroyed"
    /\ op' = "destroy"
    /\ UNCHANGED <<ret, src, target, dest, now, us_g_encode_scale, us_g_overlay, us_g_blocking>>
    /\ UNCHANGED libVars

\* libs/overlay.c
us_overlay_init ==
    /\ ~us_g_overlay
    /\ us_g_overlay' = TRUE
    /\ UNCHANGED <<encVars, us_g_encode_scale, us_g_blocking>>
    /\ UNCHANGED libVars

us_overlay_destroy ==
    /\ us_g_overlay
    /\ us_g_overlay' = FALSE
    /\ UNCHANGED <<encVars, us_g_encode_scale, us_g_blocking>>
    /\ UNCHANGED libVars

\* libs/blocking.c
us_blocking_init ==
    /\ us_g_blocking.null
    /\ us_g_blocking' = [null |-> FALSE, enabled |-> FALSE, enabled_fast |-> FALSE]
    /\ UNCHANGED <<encVars, us_g_encode_scale, us_g_overlay>>
    /\ UNCHANGED libVars

us_blocking_destroy ==
    /\ ~us_g_blocking.null
    /\ us_g_blocking' = NullBlocking
    /\ UNCHANGED <<encVars, us_g_encode_scale, us_g_overlay>>
    /\ UNCHANGED libVars

us_blocking_enable ==
    /\ ~us_g_blocking.null
    /\ \E enabled \in BOOLEAN :
          us_g_blocking' = [us_g_blocking EXCEPT !.enabled = enabled,
                                                 !.enabled_fast = enabled]
    /\ UNCHANGED <<encVars, us_g_encode_scale, us_g_overlay>>
    /\ UNCHANGED libVars

us_blocking_clear ==
    /\ ~us_g_blocking.null
    /\ us_g_blocking' = [us_g_blocking EXCEPT !.enabled_fast = FALSE, !.enabled = FALSE]
    /\ UNCHANGED <<encVars, us_g_encode_scale, us_g_overlay>>
    /\ UNCHANGED libVars

us_blocking_is_enabled_fast ==
    IF us_g_blocking.null THEN FALSE ELSE us_g_blocking.enabled_fast

Next ==
    \/ us_mpp_jpeg_encoder_init
    \/ us_mpp_encoder_compress
    \/ WorkerNextFrame
    \/ us_mpp_encoder_destroy
    \/ us_overlay_init
    \/ us_overlay_destroy
    \/ us_blocking_init
    \/ us_blocking_destroy
    \/ us_blocking_enable
    \/ us_blocking_clear

Spec == Init /\ [][Next]_vars

TypeOK ==
    /\ life \in {"none", "alive", "destroyed"}
    /\ ret \in {0, -1}
    /\ now \in 0..MaxCalls
    /\ us_g_overlay \in BOOLEAN

(***************************************************************************)
(* Properties of the reconfiguration protocol and of the vendor resources  *)
(***************************************************************************)
Has(t, name) == \E i \in DOMAIN t : t[i][1] = name

Names(t) == [i \in DOMAIN t |-> t[i][1]]

IsPrefix(p, q) == Len(p) <= Len(q) /\ SubSeq(q, 1, Len(p)) = p

SupportedFormats == {"NV12", "NV16", "NV24", "YUYV", "UYVY", "RGB24", "BGR24"}

\* the vendor calls of the allocation sequence, in its order
AllocationSequence ==
    <<"mpp_create", "mpp_init", "mpp_enc_cfg_init", "MPP_ENC_GET_CFG", "MPP_ENC_SET_CFG",
      "mpp_buffer_group_get_internal", "mpp_buffer_get", "mpp_buffer_get">>

IsAllocationCall(ev) == \E i \in DOMAIN AllocationSequence : AllocationSequence[i] = ev[1]

AllocationCallsOf(t) == Names(SelectSeq(t, IsAllocationCall))

\* the vendor calls that acquire or release a context, a buffer group or a DMA buffer
ResourceCalls == {"mpp_create", "mpp_destroy", "mpp_buffer_group_get_internal",
                  "mpp_buffer_group_put", "mpp_buffer_get", "mpp_buffer_put"}

IsHeld(ev) == ev[2] # NULL

\* the releases that tear down everything e holds, in the order of the teardown
HeldInReleaseOrder(e) ==
    SelectSeq(<< <<"mpp_buffer_put", e.pkt_buf>>, <<"mpp_buffer_put", e.frame_buf>>,
                 <<"mpp_buffer_group_put", e.buf_grp>>, <<"mpp_destroy", e.mpp_ctx>> >>, IsHeld)

\* the same releases in the order in which the resources were acquired
HeldInAcquireOrder(e) ==
    SelectSeq(<< <<"mpp_destroy", e.mpp_ctx>>, <<"mpp_buffer_group_put", e.buf_grp>>,
                 <<"mpp_buffer_put", e.frame_buf>>, <<"mpp_buffer_put", e.pkt_buf>> >>, IsHeld)

Handles(e) == <<e.mpp_ctx, e.buf_grp, e.frame_buf, e.pkt_buf>>

AllLive(e, h) ==
    /\ Live(h, e.mpp_ctx) /\ h[e.mpp_ctx].kind = "ctx"
    /\ Live(h, e.buf_grp) /\ h[e.buf_grp].kind = "grp"
    /\ Live(h, e.frame_buf) /\ h[e.frame_buf].kind = "buf"
    /\ Live(h, e.pkt_buf) /\ h[e.pkt_buf].kind = "buf"
    /\ Cardinality({e.mpp_ctx, e.buf_grp, e.frame_buf, e.pkt_buf}) = 4

NoneLive(h) == \A i \in DOMAIN h : h[i].kind = "free"

CompressStep == op = "none" /\ op' = "compress"

\* C1: on a compress with a supported format, a ready adapter whose configured
\* (width, height, vendor format) equals the resolved target tuple makes no call that
\* acquires or releases a vendor resource and keeps its handles; otherwise the call first
\* releases everything the adapter holds and then runs the allocation sequence from its
\* first call, up to the first failing call and to its end when the adapter ends ready.
C1_ReuseOrTeardownThenAllocate ==
    [][(CompressStep /\ src'.format \in SupportedFormats) =>
         LET same == /\ enc.ready
                     /\ <<enc.width, enc.height>> = target'
                     /\ enc.mpp_format = _v4l2_to_mpp_format(src'.format)
             rel == HeldInReleaseOrder(enc)
             calls == AllocationCallsOf(trace')
         IN IF same
            THEN /\ \A i \in DOMAIN trace' : trace'[i][1] \notin ResourceCalls
                 /\ Handles(enc') = Handles(enc)
                 /\ AllLive(enc', heap')
                 /\ enc'.ready
            ELSE /\ Len(trace') >= Len(rel) + 3
                 /\ SubSeq(trace', 3, Len(rel) + 2) = rel
                 /\ trace'[Len(rel) + 3][1] = "mpp_create"
                 /\ IsPrefix(calls, AllocationSequence)
                 /\ (enc'.ready => calls = AllocationSequence)
                 /\ (calls # AllocationSequence => ret' = -1)
      ]_vars

\* a compress has torn down a configured adapter and configured it anew
C1_Witness ==
    /\ op = "compress"
    /\ Has(trace, "mpp_destroy")
    /\ Has(trace, "pkt_buf")
    /\ enc.ready
    /\ ret = 0

\* C2: when a call of the allocation sequence fails, compress returns an error and the
\* adapter is not ready and holds no vendor context, no buffer group, no frame buffer
\* and no packet buffer, and no vendor object of that attempt is left live.
C2_FailedAllocationUnwinds ==
    (op = "compress" /\ Has(trace, "mpp_create") /\ ~Has(trace, "pkt_buf")) =>
        /\ ret = -1
        /\ ~enc.ready
        /\ Handles(enc) = <<NULL, NULL, NULL, NULL>>
        /\ NoneLive(heap)

\* the allocation of the packet buffer failed after the context, the group and the
\* frame buffer were acquired
C2_Witness ==
    /\ op = "compress"
    /\ Has(trace, "frame_buf")
    /\ ~Has(trace, "pkt_buf")
    /\ Has(trace, "mpp_buffer_group_put")
    /\ ret = -1

\* the size of the frame DMA buffer by vendor format and strides
ExpectedFrameSize(mpp_format, hs, vs) ==
    IF mpp_format = "MPP_FMT_YUV420SP" THEN (hs * vs * 3) \div 2
    ELSE IF mpp_format \in {"MPP_FMT_YUV422SP", "MPP_FMT_YUV422_YUYV", "MPP_FMT_YUV422_UYVY"}
         THEN hs * vs * 2
         ELSE hs * vs * 3

\* n is x rounded up to a multiple of 16
IsAlign16(n, x) == n % 16 = 0 /\ n >= x /\ n < x + 16

\* C3: between the operations of the adapter, ready holds exactly when the vendor
\* context, the buffer group, the frame buffer and the packet buffer are all live; and
\* when ready, the strides are the configured width and height rounded up to a multiple
\* of 16 and the frame buffer has the size of the configured format and strides.
C3_ReadyIffLiveAndSized ==
    /\ enc.ready <=> AllLive(enc, heap)
    /\ enc.ready =>
          /\ IsAlign16(enc.hor_stride, enc.width)
          /\ IsAlign16(enc.ver_stride, enc.height)
          /\ heap[enc.frame_buf].size =
                ExpectedFrameSize(enc.mpp_format, enc.hor_stride, enc.ver_stride)

\* a ready adapter whose width and height are not multiples of 16
C3_Witness ==
    /\ enc.ready
    /\ enc.width = 1000
    /\ enc.hor_stride = 1008
    /\ enc.ver_stride = 608

IsAcquisition(ev) ==
    ev[1] \in {"mpp_create", "mpp_buffer_group_get_internal", "frame_buf", "pkt_buf"}
    /\ ev[2] # NULL

\* the call that releases what the acquisition ev acquired
ReleaseOf(ev) ==
    IF ev[1] = "mpp_create" THEN <<"mpp_destroy", ev[2]>>
    ELSE IF ev[1] = "mpp_buffer_group_get_internal" THEN <<"mpp_buffer_group_put", ev[2]>>
    ELSE <<"mpp_buffer_put", ev[2]>>

RECURSIVE HeldAfter(_, _, _)
\* the resources held after the calls t[i], t[i+1], ... made while stack is held (the last
\* acquired at the end); ok is FALSE when a call releases anything but the last acquired
HeldAfter(stack, t, i) ==
    IF i > Len(t) THEN [ok |-> TRUE, stack |-> stack]
    ELSE IF IsAcquisition(t[i]) THEN HeldAfter(Append(stack, ReleaseOf(t[i])), t, i + 1)
    ELSE IF t[i][1] \in {"mpp_destroy", "mpp_buffer_group_put", "mpp_buffer_put"}
         THEN IF Len(stack) > 0 /\ stack[Len(stack)] = t[i]
              THEN HeldAfter(SubSeq(stack, 1, Len(stack) - 1), t, i + 1)
              ELSE [ok |-> FALSE, stack |-> stack]
         ELSE HeldAfter(stack, t, i + 1)

\* C4: over compress calls and the final destroy, no vendor call works on a released
\* object and no released object is released again; every release releases the resource
\* acquired last among those still held (teardown order: packet buffer, frame buffer,
\* buffer group, context); what is held after a call is what the adapter's handles name;
\* and after destroy nothing is held and no vendor object is live.
C4_ReleasedOnceInReverseOrder ==
    [][/\ ~uaf' /\ ~dfree'
       /\ (op = "none" /\ op' \in {"compress", "destroy"}) =>
             LET r == HeldAfter(HeldInAcquireOrder(enc), trace', 1) IN
             /\ r.ok
             /\ r.stack = HeldInAcquireOrder(enc')
             /\ (enc'.ready \/ r.stack = <<>>)
             /\ (op' = "destroy" => r.stack = <<>> /\ NoneLive(heap'))
      ]_vars

\* destroy has released the four resources of a configured adapter
C4_Witness ==
    /\ life = "destroyed"
    /\ trace = << <<"_mpp_encoder_cleanup", 0>>, <<"mpp_buffer_put", 4>>,
                  <<"mpp_buffer_put", 3>>, <<"mpp_buffer_group_put", 2>>,
                  <<"mpp_destroy", 1>> >>
    /\ NoneLive(heap)

CpuWrites == {"memset", "_downscale_nv12", "_copy_nv12_aligned", "memcpy",
              "us_overlay_draw_nv12"}

\* C5: in every compress that submits a frame, the cache-sync of the frame buffer comes
\* after every CPU write to the buffer and before the submit.
C5_SyncAfterWritesBeforeSubmit ==
    \A i \in DOMAIN trace :
        trace[i][1] = "encode_put_frame" =>
            \E j \in 1..(i - 1) :
                /\ trace[j] = <<"mpp_buffer_sync_end", enc.frame_buf>>
                /\ \A k \in DOMAIN trace : trace[k][1] \in CpuWrites => k < j

\* a frame was zero-filled, copied, drawn on by the overlay and submitted
C5_Witness ==
    /\ op = "compress"
    /\ Has(trace, "encode_put_frame")
    /\ Has(trace, "_copy_nv12_aligned")
    /\ Has(trace, "us_overlay_draw_nv12")

(***************************************************************************)
(* The scale policy as a pure function: ScaleSpec draws a policy and a     *)
(* frame and applies _get_target_resolution to them.                       *)
(***************************************************************************)
ScaleWidths == {1, 2, 640, 1000, 1919, 1920, 1921, 2559, 2560, 2561, 3839, 3840, 3841, 4096}

ScaleHeights == {1, 2, 480, 600, 1079, 1080, 1081, 1439, 1440, 1441, 2159, 2160, 2161, 2304}

ScaleFrames ==
    {[width |-> w, height |-> h, format |-> f, used |-> FrameUsed(f, w, h)] :
        w \in ScaleWidths, h \in ScaleHeights, f \in V4L2Formats}

InitScale ==
    /\ life = "none"
    /\ enc = ZeroEnc
    /\ heap = <<>>
    /\ uaf = FALSE
    /\ dfree = FALSE
    /\ trace = <<>>
    /\ op = "none"
    /\ ret = 0
    /\ src \in ScaleFrames
    /\ target = <<0, 0>>
    /\ dest = ZeroFrame
    /\ now = 0
    /\ us_g_encode_scale \in ScalePolicies
    /\ us_g_overlay = FALSE
    /\ us_g_blocking = NullBlocking
    /\ LibIdle

ResolveTarget ==
    /\ op = "none"
    /\ op' = "resolve"
    /\ target' = _get_target_resolution(us_g_encode_scale, src)
    /\ UNCHANGED <<life, enc, heap, uaf, dfree, trace, ret, src, dest, now,
                   us_g_encode_scale, us_g_overlay, us_g_blocking>>
    /\ UNCHANGED libVars

\* "(src << 16) / dst" in uint: the 16.16 scale factor as <<integer part, fraction>>.
\* The shift keeps the low 16 bits of src.
ScaleFp(src_size, dst_size) ==
    LET hi == src_size % 65536
    IN <<hi \div dst_size, ((hi % dst_size) * 65536) \div dst_size>>

\* "(d * scale_fp) >> 16" in uint
SampleAt(d, scale_fp) == (d * scale_fp[1] + ((d * scale_fp[2]) \div 65536)) % 65536

\* the mask without effect
PairAlign_keeps_odd(x) == x

\* "& ~1": "Align to UV pair"
PairAlign(x) == x - (x % 2)

\* _downscale_nv12(src_data, src_width, src_height, dst_data, dst_width, dst_height):
\* the rows and columns of the source that the two loops read (uv_cols: the column of
\* the U byte of each pair read) and the columns of the destination at which the
\* chroma loop writes a pair
_downscale_nv12(src_width, src_height, dst_width, dst_height) ==
    LET scale_x_fp == ScaleFp(src_width, dst_width)
        scale_y_fp == ScaleFp(src_height, dst_height)
        src_uv_height == src_height \div 2
        dst_uv_height == dst_height \div 2
        scale_uv_y_fp == ScaleFp(src_uv_height, dst_uv_height)
    IN [y_rows  |-> {SampleAt(dy, scale_y_fp) : dy \in 0..(dst_height - 1)},
        y_cols  |-> {SampleAt(dx, scale_x_fp) : dx \in 0..(dst_width - 1)},
        uv_rows |-> {SampleAt(dy, scale_uv_y_fp) : dy \in 0..(dst_uv_height - 1)},
        uv_cols |-> {PairAlign(SampleAt(dx, scale_x_fp)) :
                        dx \in {d \in 0..(dst_width - 1) : d % 2 = 0}},
        uv_dst  |-> {d \in 0..(dst_width - 1) : d % 2 = 0}]

\* the branch of us_mpp_encoder_compress that downscales: an NV12 source whose target
\* differs from its size.  A target of height 1 has no chroma row and the division
\* that gives scale_uv_y_fp is by zero.
Downscale ==
    /\ op = "resolve"
    /\ src.format = "NV12"
    /\ target # <<src.width, src.height>>
    /\ IF target[2] \div 2 = 0
       THEN /\ op' = "SIGFPE"
            /\ UNCHANGED local
       ELSE /\ op' = "downscale"
            /\ local' = [local EXCEPT !["worker1"] =
                            [calls |-> 1, ret |-> 0,
                             reads |-> _downscale_nv12(src.width, src.height,
                                                       target[1], target[2])]]
    /\ UNCHANGED <<life, enc, heap, uaf, dfree, trace, ret, src, target, dest, now,
                   us_g_encode_scale, us_g_overlay, us_g_blocking>>
    /\ UNCHANGED <<pc, mutex, blocking_config, overlay_config, raw_frame, ft>>

\* a run of writes into the frame DMA buffer: rows times, len bytes from
\* base + y * stride on
Run(base, stride, rows, len) == [base |-> base, stride |-> stride, rows |-> rows, len |-> len]

\* the offset after the last byte that a run writes (0: it writes nothing)
RunEnd(r) == IF r.rows = 0 \/ r.len = 0 THEN 0 ELSE r.base + (r.rows - 1) * r.stride + r.len

\* the writes of _copy_nv12_aligned(src_data, src_width, src_height, dst_data,
\* dst_hor_stride, dst_ver_stride): the luma plane, then the chroma plane
_copy_nv12_aligned(src_width, src_height, dst_hor_stride, dst_ver_stride) ==
    IF src_width = dst_hor_stride
    THEN {Run(0, 0, 1, src_width * src_height),
          Run(dst_hor_stride * dst_ver_stride, 0, 1, src_width * (src_height \div 2))}
    ELSE {Run(0, dst_hor_stride, src_height, src_width),
          Run(dst_hor_stride * dst_ver_stride, dst_hor_stride, src_height \div 2, src_width)}

\* the writes of _downscale_nv12 into dst_data: dst_height rows of dst_width bytes,
\* then dst_height / 2 rows of pairs at the even dx below dst_width; with
\* dst_height / 2 = 0 the division that precedes the chroma loop ends the process
_downscale_nv12_writes(dst_width, dst_height) ==
    LET dst_y_stride == MPP_ALIGN(dst_width, 16)
    IN {Run(0, dst_y_stride, dst_height, dst_width),
        Run(dst_y_stride * MPP_ALIGN(dst_height, 16), dst_y_stride, dst_height \div 2,
            PairAlign(dst_width - 1) + 2)}

\* the bytes that us_overlay_draw_nv12(y_plane, uv_plane, width, height, y_stride,
\* uv_stride) can write: luma at every px < width, py < height, a chroma pair at
\* every even px and py among them
us_overlay_draw_nv12_writes(width, height, hor_stride, ver_stride) ==
    {Run(0, hor_stride, height, width),
     Run(hor_stride * ver_stride, hor_stride, (height + 1) \div 2, PairAlign(width - 1) + 2)}

\* the direct copy without the test of its size
CopyFits_unchecked(copy_size, buf_size) == TRUE

\* "if (copy_size > buf_size) { ... return -1; }"
CopyFits(copy_size, buf_size) == ~(copy_size > buf_size)

\* the writes of us_mpp_encoder_compress into the frame DMA buffer of an encoder that
\* is prepared for the target: "Clear buffer", the copy by format, the overlay
FrameBufferWrites(f, tgt, overlay) ==
    LET hor_stride == MPP_ALIGN(tgt[1], 16)
        ver_stride == MPP_ALIGN(tgt[2], 16)
        buf_size == FrameSize(_v4l2_to_mpp_format(f.format), hor_stride, ver_stride)
        needs_downscale == tgt[1] # f.width \/ tgt[2] # f.height
        memset == {Run(0, 0, 1, buf_size)}
        draw == IF f.format = "NV12" /\ overlay
                THEN us_overlay_draw_nv12_writes(tgt[1], tgt[2], hor_stride, ver_stride)
                ELSE {}
    IN IF needs_downscale /\ f.format = "NV12"
       THEN [buf_size |-> buf_size, ret |-> 0, path |-> "_downscale_nv12",
             writes |-> memset \cup _downscale_nv12_writes(tgt[1], tgt[2])
                        \cup (IF tgt[2] \div 2 = 0 THEN {} ELSE draw)]
       ELSE IF f.format = "NV12"
       THEN [buf_size |-> buf_size, ret |-> 0, path |-> "_copy_nv12_aligned",
             writes |-> memset \cup _copy_nv12_aligned(f.width, f.height, hor_stride, ver_stride)
                        \cup draw]
       ELSE IF ~CopyFits(f.used, buf_size)
       THEN [buf_size |-> buf_size, ret |-> -1, path |-> "oversized", writes |-> memset]
       ELSE [buf_size |-> buf_size, ret |-> 0, path |-> "memcpy",
             writes |-> memset \cup {Run(0, 0, 1, f.used)}]

\* us_mpp_encoder_compress from "Clear buffer" to the overlay, for a source whose
\* format the vendor encodes
FillFrameBuffer ==
    /\ op = "resolve"
    /\ _v4l2_to_mpp_format(src.format) # "MPP_FMT_BUTT"
    /\ op' = "fill"
    /\ \E overlay \in BOOLEAN :
          local' = [local EXCEPT !["worker1"] =
                       [calls |-> 1, ret |-> 0, overlay |-> overlay,
                        fill |-> FrameBufferWrites(src, target, overlay)]]
    /\ UNCHANGED <<life, enc, heap, uaf, dfree, trace, ret, src, target, dest, now,
                   us_g_encode_scale, us_g_overlay, us_g_blocking>>
    /\ UNCHANGED <<pc, mutex, blocking_config, overlay_config, raw_frame, ft>>

NextScale ==
    \/ ResolveTarget
    \/ Downscale
    \/ FillFrameBuffer

ScaleSpec == InitScale /\ [][NextScale]_vars

Min(a, b) == IF a < b THEN a ELSE b

\* the rule table of the scale policies
RuleTable(policy, f) ==
    IF policy = "US_ENCODE_SCALE_1080P" THEN <<Min(f.width, 1920), Min(f.height, 1080)>>
    ELSE IF policy = "US_ENCODE_SCALE_2K" THEN <<Min(f.width, 2560), Min(f.height, 1440)>>
    ELSE IF policy = "US_ENCODE_SCALE_4K" THEN <<f.width, f.height>>
    ELSE IF f.width >= 3840 /\ f.height >= 2160 /\ f.format = "NV12"
         THEN <<1920, 1080>>
         ELSE <<f.width, f.height>>

\* C6: for every scale policy and every input frame the resolved target is the one of
\* the rule table: P1080 min(w,1920) x min(h,1080), P1440 min(w,2560) x min(h,1440),
\* P2160 (w,h), Native 1920x1080 for an NV12 frame of at least 3840x2160 and (w,h)
\* otherwise.
C6_TargetIsRuleTable ==
    op = "resolve" => target = RuleTable(us_g_encode_scale, src)

\* Native resolves 3840x2160 NV12 to 1920x1080
C6_Witness ==
    /\ op = "resolve"
    /\ us_g_encode_scale = "US_ENCODE_SCALE_NATIVE"
    /\ src.width = 3840 /\ src.height = 2160 /\ src.format = "NV12"
    /\ target = <<1920, 1080>>

\* C7: the target a compress resolves exceeds the source frame in neither dimension,
\* and after a compress of a frame of a supported format a ready adapter is configured
\* for that target, so for no width or height larger than the source frame's.
C7_NeverUpscales ==
    op = "compress" =>
        /\ target[1] <= src.width
        /\ target[2] <= src.height
        /\ (src.format \in SupportedFormats /\ enc.ready) =>
              /\ <<enc.width, enc.height>> = target
              /\ enc.width <= src.width
              /\ enc.height <= src.height

\* P1080 on a 1000x600 frame: both dimensions are clamped to the input
C7_Witness ==
    /\ op = "compress"
    /\ us_g_encode_scale = "US_ENCODE_SCALE_1080P"
    /\ src.width = 1000 /\ src.height = 600
    /\ enc.ready
    /\ enc.width = 1000 /\ enc.height = 600

\* C8: every compress records the encode begin time on entry; one that returns success
\* has stored a non-empty packet in the output frame with key = true and gop = 0 and has
\* recorded the encode end time; one that returns failure has not recorded the end time.
C8_OutputFrameOnSuccessOnly ==
    op = "compress" =>
        /\ trace[1] = <<"us_frame_encoding_begin", 0>>
        /\ dest.encode_begin_ts = now
        /\ ret = 0 =>
              /\ Has(trace, "us_frame_set_data")
              /\ dest.used > 0
              /\ dest.key = TRUE
              /\ dest.gop = 0
              /\ dest.encode_end_ts = now
        /\ ret # 0 =>
              /\ ~Has(trace, "us_frame_encoding_end")
              /\ dest.encode_end_ts < now

\* a compress that got an empty packet, after a compress that succeeded
C8_Witness ==
    /\ op = "compress"
    /\ ret = -1
    /\ Has(trace, "mpp_packet_deinit")
    /\ dest.encode_begin_ts = 2
    /\ dest.encode_end_ts = 1
    /\ dest.used = PktLen

\* C9: a compress of a frame whose format is not one of NV12, NV16, NV24, YUYV, UYVY,
\* RGB24, BGR24 returns an error without any vendor call: readiness, configuration,
\* handles and vendor objects are as before the call.
C9_UnsupportedFormatChangesNothing ==
    [][(CompressStep /\ src'.format \notin SupportedFormats) =>
          /\ ret' = -1
          /\ enc' = enc
          /\ heap' = heap
          /\ trace' = << <<"us_frame_encoding_begin", 0>> >>
      ]_vars

\* a configured adapter has refused a JPEG frame and is still ready
C9_Witness ==
    /\ op = "compress"
    /\ src.format = "JPEG"
    /\ ret = -1
    /\ enc.ready
    /\ AllLive(enc, heap)

\* the position of the first call of that name in t (0: none)
FirstOf(t, name) ==
    IF Has(t, name) THEN CHOOSE i \in DOMAIN t : t[i][1] = name /\ \A j \in 1..(i - 1) : t[j][1] # name
    ELSE 0

\* C10: a compress that has copied an NV12 source into the frame buffer calls the
\* blocking compositor when the fast flag reads true, after the copy and before the
\* text overlay, the cache-sync and the submit, and does not call it when the flag
\* reads false.
C10_CompositeWhenBlocking ==
    [][(/\ CompressStep
        /\ src'.format = "NV12"
        /\ (Has(trace', "_copy_nv12_aligned") \/ Has(trace', "_downscale_nv12"))) =>
          IF us_blocking_is_enabled_fast
          THEN LET c == FirstOf(trace', "us_blocking_composite_nv12") IN
               /\ c > 0
               /\ \A i \in DOMAIN trace' :
                     /\ trace'[i][1] \in {"_copy_nv12_aligned", "_downscale_nv12"} => i < c
                     /\ trace'[i][1] \in {"us_overlay_draw_nv12", "mpp_buffer_sync_end",
                                          "encode_put_frame"} => c < i
          ELSE ~Has(trace', "us_blocking_composite_nv12")
      ]_vars

(***************************************************************************)
(* libs/blocking.c and libs/overlay.c as their callers see them: several   *)
(* threads, each in at most one library function, each step of a function  *)
(* one action.  pc[t] is "idle" or "function:place".                       *)
(***************************************************************************)
MaxApiCalls == 2

\* a lock that is taken without waiting for its holder
MutexLock_no_wait(m, t) == mutex' = [mutex EXCEPT ![m] = t]

\* US_MUTEX_LOCK / pthread_mutex_lock: blocks while another thread holds m
MutexLock(m, t) ==
    /\ mutex[m] = "free"
    /\ mutex' = [mutex EXCEPT ![m] = t]

\* US_MUTEX_UNLOCK / pthread_mutex_unlock
MutexUnlock(m, t) == mutex' = [mutex EXCEPT ![m] = "free"]

Goto(t, place) == pc' = [pc EXCEPT ![t] = place]

\* the return of a library function to its caller, with no return value
Return(t) ==
    /\ pc' = [pc EXCEPT ![t] = "idle"]
    /\ local' = [local EXCEPT ![t] = [calls |-> local[t].calls, ret |-> 0]]

\* a thread that is idle enters a library function with the given locals
Call(t, place, locals) ==
    /\ pc[t] = "idle"
    /\ local[t].calls < MaxApiCalls
    /\ pc' = [pc EXCEPT ![t] = place]
    /\ local' = [local EXCEPT ![t] = [calls |-> local[t].calls + 1, ret |-> 0] @@ locals]

\* _ft_init: the FreeType statics it can leave (the library or a font may fail to load)
_ft_init ==
    {ZeroFt} \cup {[initialized |-> TRUE, face_vocab |-> v, face_stats |-> st] :
                      v \in BOOLEAN, st \in BOOLEAN}

\* the state after us_overlay_init() and us_blocking_init(), before any other call
LibInit ==
    /\ life = "none"
    /\ enc = ZeroEnc
    /\ heap = <<>>
    /\ uaf = FALSE
    /\ dfree = FALSE
    /\ trace = <<>>
    /\ op = "none"
    /\ ret = 0
    /\ src = NoFrame
    /\ target = <<0, 0>>
    /\ dest = ZeroFrame
    /\ now = 0
    /\ us_g_encode_scale = "US_ENCODE_SCALE_NATIVE"
    /\ us_g_overlay = TRUE
    /\ us_g_blocking = [null |-> FALSE, enabled |-> FALSE, enabled_fast |-> FALSE]
    /\ pc = [t \in Threads |-> "idle"]
    /\ local = [t \in Threads |-> NoLocals]
    /\ mutex = [m \in Mutexes |-> "free"]
    /\ blocking_config = ZeroBlockingConfig
    /\ overlay_config = ZeroOverlayConfig
    /\ raw_frame = ZeroRawFrame
    /\ ft \in _ft_init

\* what no step of a blocking.c function that works on the flags changes
EnableFrame == UNCHANGED <<encVars, us_g_encode_scale, us_g_overlay, overlay_config,
                           raw_frame, ft>>

\* us_blocking_enable(enabled), statement by statement
us_blocking_enable_call(t) ==
    /\ ~us_g_blocking.null
    /\ \E enabled \in BOOLEAN : Call(t, "us_blocking_enable:lock", [enabled |-> enabled])
    /\ UNCHANGED <<us_g_blocking, mutex, blocking_config>>
    /\ EnableFrame

us_blocking_enable_lock(t) ==
    /\ pc[t] = "us_blocking_enable:lock"
    /\ MutexLock("us_g_blocking->mutex", t)
    /\ Goto(t, "us_blocking_enable:set")
    /\ UNCHANGED <<us_g_blocking, local, blocking_config>>
    /\ EnableFrame

us_blocking_enable_set(t) ==
    /\ pc[t] = "us_blocking_enable:set"
    /\ us_g_blocking' = [us_g_blocking EXCEPT !.enabled = local[t].enabled]
    /\ MutexUnlock("us_g_blocking->mutex", t)
    /\ Goto(t, "us_blocking_enable:store")
    /\ UNCHANGED <<local, blocking_config>>
    /\ EnableFrame

us_blocking_enable_store(t) ==
    /\ pc[t] = "us_blocking_enable:store"
    /\ us_g_blocking' = [us_g_blocking EXCEPT !.enabled_fast = local[t].enabled]
    /\ Return(t)
    /\ UNCHANGED <<mutex, blocking_config>>
    /\ EnableFrame

\* us_blocking_clear(), statement by statement
us_blocking_clear_call(t) ==
    /\ ~us_g_blocking.null
    /\ Call(t, "us_blocking_clear:store", <<>>)
    /\ UNCHANGED <<us_g_blocking, mutex, blocking_config>>
    /\ EnableFrame

us_blocking_clear_store(t) ==
    /\ pc[t] = "us_blocking_clear:store"
    /\ us_g_blocking' = [us_g_blocking EXCEPT !.enabled_fast = FALSE]
    /\ Goto(t, "us_blocking_clear:lock")
    /\ UNCHANGED <<local, mutex, blocking_config>>
    /\ EnableFrame

us_blocking_clear_lock(t) ==
    /\ pc[t] = "us_blocking_clear:lock"
    /\ MutexLock("us_g_blocking->mutex", t)
    /\ Goto(t, "us_blocking_clear:set")
    /\ UNCHANGED <<us_g_blocking, local, blocking_config>>
    /\ EnableFrame

us_blocking_clear_set(t) ==
    /\ pc[t] = "us_blocking_clear:set"
    /\ us_g_blocking' = [us_g_blocking EXCEPT !.enabled = FALSE]
    /\ blocking_config' = [blocking_config EXCEPT !.bg_valid = FALSE,
                                                  !.preview_enabled = FALSE,
                                                  !.text_vocab = "",
                                                  !.text_stats = ""]
    /\ MutexUnlock("us_g_blocking->mutex", t)
    /\ Return(t)
    /\ EnableFrame

\* two HTTP handler threads switch the blocking mode on, off and clear it
ApiThreads == {"api1", "api2"}

InitEnable == LibInit

NextEnable ==
    \E t \in ApiThreads :
        \/ us_blocking_enable_call(t)
        \/ us_blocking_enable_lock(t)
        \/ us_blocking_enable_set(t)
        \/ us_blocking_enable_store(t)
        \/ us_blocking_clear_call(t)
        \/ us_blocking_clear_store(t)
        \/ us_blocking_clear_lock(t)
        \/ us_blocking_clear_set(t)

EnableSpec == InitEnable /\ [][NextEnable]_vars

\* C11: once every concurrent us_blocking_enable and us_blocking_clear call has
\* returned, the atomic flag enabled_fast equals config.enabled.
C11_FastFlagDuplicatesEnabled ==
    (\A t \in ApiThreads : pc[t] = "idle") =>
        us_g_blocking.enabled_fast = us_g_blocking.enabled

(***************************************************************************)
(* The setters and the two drawing functions                               *)
(***************************************************************************)
IntMax == 2147483647

\* no library function touches the encoder adapter or the global pointers
EncoderUntouched == UNCHANGED <<encVars, us_g_encode_scale, us_g_overlay>>

\* us_overlay_set_position(pos, x, y); the three values are the number of the call
us_overlay_set_position(t) ==
    \/ /\ us_g_overlay
       /\ Call(t, "us_overlay_set_position:lock", <<>>)
       /\ UNCHANGED <<us_g_blocking, mutex, blocking_config, overlay_config, raw_frame, ft>>
       /\ EncoderUntouched
    \/ /\ pc[t] = "us_overlay_set_position:lock"
       /\ MutexLock("us_g_overlay->mutex", t)
       /\ Goto(t, "us_overlay_set_position:position")
       /\ UNCHANGED <<us_g_blocking, local, blocking_config, overlay_config, raw_frame, ft>>
       /\ EncoderUntouched
    \/ /\ pc[t] = "us_overlay_set_position:position"
       /\ overlay_config' = [overlay_config EXCEPT !.position = local[t].calls]
       /\ Goto(t, "us_overlay_set_position:x")
       /\ UNCHANGED <<us_g_blocking, local, mutex, blocking_config, raw_frame, ft>>
       /\ EncoderUntouched
    \/ /\ pc[t] = "us_overlay_set_position:x"
       /\ overlay_config' = [overlay_config EXCEPT !.x = local[t].calls]
       /\ Goto(t, "us_overlay_set_position:y")
       /\ UNCHANGED <<us_g_blocking, local, mutex, blocking_config, raw_frame, ft>>
       /\ EncoderUntouched
    \/ /\ pc[t] = "us_overlay_set_position:y"
       /\ overlay_config' = [overlay_config EXCEPT !.y = local[t].calls]
       /\ MutexUnlock("us_g_overlay->mutex", t)
       /\ Return(t)
       /\ UNCHANGED <<us_g_blocking, blocking_config, raw_frame, ft>>
       /\ EncoderUntouched

\* us_overlay_draw_nv12: the snapshot under the mutex, then the drawing from it
us_overlay_draw_nv12(t) ==
    \/ /\ us_g_overlay
       /\ Call(t, "us_overlay_draw_nv12:lock", [config |-> ZeroOverlayConfig])
       /\ UNCHANGED <<us_g_blocking, mutex, blocking_config, overlay_config, raw_frame, ft>>
       /\ EncoderUntouched
    \/ /\ pc[t] = "us_overlay_draw_nv12:lock"
       /\ MutexLock("us_g_overlay->mutex", t)
       /\ Goto(t, "us_overlay_draw_nv12:memcpy")
       /\ UNCHANGED <<us_g_blocking, local, blocking_config, overlay_config, raw_frame, ft>>
       /\ EncoderUntouched
    \/ /\ pc[t] = "us_overlay_draw_nv12:memcpy"
       /\ local' = [local EXCEPT ![t].config = overlay_config]
       /\ MutexUnlock("us_g_overlay->mutex", t)
       /\ Goto(t, "us_overlay_draw_nv12:draw")
       /\ UNCHANGED <<us_g_blocking, blocking_config, overlay_config, raw_frame, ft>>
       /\ EncoderUntouched
    \* the early exit, or the box and the text drawn from the snapshot
    \/ /\ pc[t] = "us_overlay_draw_nv12:draw"
       /\ Return(t)
       /\ UNCHANGED <<us_g_blocking, mutex, blocking_config, overlay_config, raw_frame, ft>>
       /\ EncoderUntouched

\* US_BLOCKING_MAX_BG_SIZE
US_BLOCKING_MAX_BG_SIZE == (3840 * 2160 * 3) \div 2

\* width * height as the two 16-bit halves <<high, low>> of an unsigned 32-bit value
\* (width, height < 65536, so the product itself does not wrap)
Mul32(width, height) ==
    LET a == (width \div 256) * height
        b == (width % 256) * height
        low == (a % 256) * 256 + b
    IN <<(a \div 256) + (low \div 65536), low % 65536>>

\* v * 3 in unsigned 32-bit arithmetic, on the two halves
Times3(v) ==
    <<(v[1] * 3 + ((v[2] * 3) \div 65536)) % 65536, (v[2] * 3) % 65536>>

\* "size_t nv12_size = width * height * 3 / 2" with uint width, height
Nv12Size32(width, height) ==
    LET v == Times3(Mul32(width, height))
    IN v[1] * 32768 + (v[2] \div 2)

\* the test "nv12_size > US_BLOCKING_MAX_BG_SIZE" has let the image through
BackgroundFits(width, height) == Nv12Size32(width, height) <= US_BLOCKING_MAX_BG_SIZE

\* _rgb24_to_nv12 writes past the first US_BLOCKING_MAX_BG_SIZE bytes of nv12: the last
\* byte it writes is the V byte of the last even column of the last even row
WritesBeyondBackground(width, height) ==
    IF width > US_BLOCKING_MAX_BG_SIZE \div height THEN TRUE
    ELSE width * height + ((height - 1) \div 2) * width + ((width - 1) - ((width - 1) % 2)) + 2
            > US_BLOCKING_MAX_BG_SIZE

\* the decoded sizes of the JPEG images that are uploaded
BgSizes == {<<1, 1>>, <<1920, 1080>>, <<3840, 2160>>, <<3841, 2160>>, <<3840, 2161>>,
            <<4096, 2025>>, <<4096, 2026>>, <<65309, 127>>, <<32768, 43691>>,
            <<65535, 1>>, <<1, 65535>>, <<65535, 65535>>}

\* the arguments of us_blocking_set_background_jpeg: a NULL or empty buffer, bytes whose
\* header libjpeg rejects, an image of some size whose scanlines are corrupt, an image
BgInputs ==
    {[kind |-> k, width |-> 0, height |-> 0] : k \in {"null", "corrupt_header"}}
    \cup {[kind |-> k, width |-> sz[1], height |-> sz[2]] :
            k \in {"corrupt_data", "image"}, sz \in BgSizes}

\* the four fields of the background in us_g_blocking->config
BgFields(c) == <<c.background, c.bg_width, c.bg_height, c.bg_valid>>

\* a return of us_blocking_set_background_jpeg with value r
ReturnValue(t, r) ==
    /\ pc' = [pc EXCEPT ![t] = "idle"]
    /\ local' = [local EXCEPT ![t] = [calls |-> local[t].calls, ret |-> r]]

\* us_blocking_set_background_jpeg(jpeg_data, jpeg_size)
us_blocking_set_background_jpeg_call(t) ==
    /\ ~us_g_blocking.null
    /\ \E in \in BgInputs :
          Call(t, "us_blocking_set_background_jpeg:decode",
               [jpeg |-> in, entry |-> BgFields(blocking_config)])
    /\ UNCHANGED <<us_g_blocking, mutex, blocking_config, overlay_config, raw_frame, ft>>
    /\ EncoderUntouched

\* a decode step that marks the background invalid when it fails
us_blocking_set_background_jpeg_decode_invalidates(t) ==
    /\ pc[t] = "us_blocking_set_background_jpeg:decode"
    /\ IF local[t].jpeg.kind = "image"
          /\ BackgroundFits(local[t].jpeg.width, local[t].jpeg.height)
       THEN Goto(t, "us_blocking_set_background_jpeg:lock")
            /\ UNCHANGED <<local, blocking_config>>
       ELSE ReturnValue(t, -1)
            /\ blocking_config' = [blocking_config EXCEPT !.bg_valid = FALSE]
    /\ UNCHANGED <<us_g_blocking, mutex, overlay_config, raw_frame, ft>>
    /\ EncoderUntouched

\* from the test of the arguments to the last scanline: everything before the mutex
us_blocking_set_background_jpeg_decode(t) ==
    /\ pc[t] = "us_blocking_set_background_jpeg:decode"
    /\ \E malloc_ok \in BOOLEAN :
          IF local[t].jpeg.kind = "null" THEN ReturnValue(t, -1)
          ELSE IF local[t].jpeg.kind = "corrupt_header" THEN ReturnValue(t, -1)
          ELSE IF ~BackgroundFits(local[t].jpeg.width, local[t].jpeg.height)
               THEN ReturnValue(t, -1)
          ELSE IF ~malloc_ok THEN ReturnValue(t, -1)
          ELSE IF local[t].jpeg.kind = "corrupt_data" THEN ReturnValue(t, -1)
          ELSE Goto(t, "us_blocking_set_background_jpeg:lock") /\ UNCHANGED local
    /\ UNCHANGED <<us_g_blocking, mutex, blocking_config, overlay_config, raw_frame, ft>>
    /\ EncoderUntouched

us_blocking_set_background_jpeg_lock(t) ==
    /\ pc[t] = "us_blocking_set_background_jpeg:lock"
    /\ MutexLock("us_g_blocking->mutex", t)
    /\ Goto(t, "us_blocking_set_background_jpeg:convert")
    /\ UNCHANGED <<us_g_blocking, local, blocking_config, overlay_config, raw_frame, ft>>
    /\ EncoderUntouched

\* _rgb24_to_nv12 into config.background: the bytes are those of this upload
us_blocking_set_background_jpeg_convert(t) ==
    /\ pc[t] = "us_blocking_set_background_jpeg:convert"
    /\ blocking_config' = [blocking_config EXCEPT !.background = local[t].calls]
    /\ Goto(t, "us_blocking_set_background_jpeg:commit")
    /\ UNCHANGED <<us_g_blocking, local, mutex, overlay_config, raw_frame, ft>>
    /\ EncoderUntouched

us_blocking_set_background_jpeg_commit(t) ==
    /\ pc[t] = "us_blocking_set_background_jpeg:commit"
    /\ blocking_config' = [blocking_config EXCEPT !.bg_width = local[t].calls,
                                                  !.bg_height = local[t].calls,
                                                  !.bg_valid = TRUE]
    /\ MutexUnlock("us_g_blocking->mutex", t)
    /\ ReturnValue(t, 0)
    /\ UNCHANGED <<us_g_blocking, overlay_config, raw_frame, ft>>
    /\ EncoderUntouched

\* the arguments x, y, w, h, enabled of the us_blocking_set_preview calls
PreviewArgs == {<<-40, -40, 384, 216, TRUE>>, <<100, 51, 385, 217, TRUE>>,
                <<0, 0, 3840, 2160, TRUE>>, <<0, 0, 0, 0, FALSE>>}

\* us_blocking_set_preview(x, y, w, h, enabled)
us_blocking_set_preview(t) ==
    \/ /\ ~us_g_blocking.null
       /\ \E a \in PreviewArgs :
             Call(t, "us_blocking_set_preview:lock",
                  [x |-> a[1], y |-> a[2], w |-> a[3], h |-> a[4], enabled |-> a[5]])
       /\ UNCHANGED <<us_g_blocking, mutex, blocking_config, overlay_config, raw_frame, ft>>
       /\ EncoderUntouched
    \/ /\ pc[t] = "us_blocking_set_preview:lock"
       /\ MutexLock("us_g_blocking->mutex", t)
       /\ Goto(t, "us_blocking_set_preview:set")
       /\ UNCHANGED <<us_g_blocking, local, blocking_config, overlay_config, raw_frame, ft>>
       /\ EncoderUntouched
    \/ /\ pc[t] = "us_blocking_set_preview:set"
       /\ blocking_config' = [blocking_config EXCEPT !.preview_x = local[t].x,
                                                     !.preview_y = local[t].y,
                                                     !.preview_w = local[t].w,
                                                     !.preview_h = local[t].h,
                                                     !.preview_enabled = local[t].enabled]
       /\ MutexUnlock("us_g_blocking->mutex", t)
       /\ Return(t)
       /\ UNCHANGED <<us_g_blocking, overlay_config, raw_frame, ft>>
       /\ EncoderUntouched

\* the texts of the us_blocking_set_text_vocab / _stats calls ("": NULL or empty)
Texts == {"", "hola"}

\* us_blocking_set_text_vocab(text)
us_blocking_set_text_vocab(t) ==
    \/ /\ ~us_g_blocking.null
       /\ \E text \in Texts : Call(t, "us_blocking_set_text_vocab:lock", [text |-> text])
       /\ UNCHANGED <<us_g_blocking, mutex, blocking_config, overlay_config, raw_frame, ft>>
       /\ EncoderUntouched
    \/ /\ pc[t] = "us_blocking_set_text_vocab:lock"
       /\ MutexLock("us_g_blocking->mutex", t)
       /\ Goto(t, "us_blocking_set_text_vocab:set")
       /\ UNCHANGED <<us_g_blocking, local, blocking_config, overlay_config, raw_frame, ft>>
       /\ EncoderUntouched
    \/ /\ pc[t] = "us_blocking_set_text_vocab:set"
       /\ blocking_config' = [blocking_config EXCEPT !.text_vocab = local[t].text]
       /\ MutexUnlock("us_g_blocking->mutex", t)
       /\ Return(t)
       /\ UNCHANGED <<us_g_blocking, overlay_config, raw_frame, ft>>
       /\ EncoderUntouched

\* us_blocking_set_text_stats(text)
us_blocking_set_text_stats(t) ==
    \/ /\ ~us_g_blocking.null
       /\ \E text \in Texts : Call(t, "us_blocking_set_text_stats:lock", [text |-> text])
       /\ UNCHANGED <<us_g_blocking, mutex, blocking_config, overlay_config, raw_frame, ft>>
       /\ EncoderUntouched
    \/ /\ pc[t] = "us_blocking_set_text_stats:lock"
       /\ MutexLock("us_g_blocking->mutex", t)
       /\ Goto(t, "us_blocking_set_text_stats:set")
       /\ UNCHANGED <<us_g_blocking, local, blocking_config, overlay_config, raw_frame, ft>>
       /\ EncoderUntouched
    \/ /\ pc[t] = "us_blocking_set_text_stats:set"
       /\ blocking_config' = [blocking_config EXCEPT !.text_stats = local[t].text]
       /\ MutexUnlock("us_g_blocking->mutex", t)
       /\ Return(t)
       /\ UNCHANGED <<us_g_blocking, overlay_config, raw_frame, ft>>
       /\ EncoderUntouched

(***************************************************************************)
(* us_blocking_composite_nv12                                              *)
(***************************************************************************)
\* "scale *= 0.2f" of the larger-than-destination branch, in exact arithmetic: the
\* preview size scaled to fit the destination, then to a fifth, before the minimum
ScaledPreview(w, h, dst_width, dst_height) ==
    IF dst_width * h < dst_height * w
    THEN <<(dst_width * 2) \div 10, (h * dst_width * 2) \div (w * 10)>>
    ELSE <<(w * dst_height * 2) \div (h * 10), (dst_height * 2) \div 10>>

\* preview_w, preview_h of the compositor: scaled down when larger than the
\* destination, at least 160x90, at most the destination, rounded down to even
PreviewSize(w, h, dst_width, dst_height) ==
    LET sc == IF w > dst_width \/ h > dst_height
              THEN LET p == ScaledPreview(w, h, dst_width, dst_height)
                   IN <<IF p[1] < 160 THEN 160 ELSE p[1], IF p[2] < 90 THEN 90 ELSE p[2]>>
              ELSE <<w, h>>
        pw == IF sc[1] > dst_width THEN dst_width ELSE sc[1]
        ph == IF sc[2] > dst_height THEN dst_height ELSE sc[2]
    IN <<pw - (pw % 2), ph - (ph % 2)>>

\* one axis of the preview position: the values preview_x can end with.  p is the int
\* of the configuration, size <= dst.  "preview_x + (int)preview_w" overflows the int
\* when preview_x > INT_MAX - preview_w; the test then goes either way.
PreviewAxis(p, size, dst) ==
    LET a == IF p < 0 THEN dst + p - size ELSE p
        b == IF a < 0 THEN 0 ELSE a
        c == IF b > IntMax - size THEN {b, dst - size}
             ELSE IF b + size > dst THEN {dst - size}
             ELSE {b}
    IN {v - (v % 2) : v \in c}

\* the rectangles [x, y, w, h] the preview of configuration c can be drawn at on a
\* destination of dst_width x dst_height ({}: no preview is drawn)
PreviewRects(c, dst_width, dst_height) ==
    IF c.preview_enabled /\ c.preview_w > 0 /\ c.preview_h > 0
    THEN LET sz == PreviewSize(c.preview_w, c.preview_h, dst_width, dst_height)
         IN {[x |-> x, y |-> y, w |-> sz[1], h |-> sz[2]] :
                x \in PreviewAxis(c.preview_x, sz[1], dst_width),
                y \in PreviewAxis(c.preview_y, sz[2], dst_height)}
    ELSE {}

\* need_ft of the compositor, from the snapshot c and the FreeType statics f
NeedFt_vocab_only(c, f) == f.initialized /\ (f.face_vocab /\ c.text_vocab # "")

NeedFt(c, f) ==
    f.initialized /\ ((f.face_vocab /\ c.text_vocab # "") \/ (f.face_stats /\ c.text_stats # ""))

\* the bytes of the gray fill that stands in for a missing background
GrayFill == -1

\* the place of the compositor after its call of _draw_scaled_nv12 with the destination
\* size dst_width x dst_height: "(src_width << 16) / dst_width" and
\* "(src_height << 16) / dst_height" divide by zero when one of them is 0
ScalerCalled(dst_width, dst_height) ==
    IF dst_width = 0 \/ dst_height = 0
    THEN "_draw_scaled_nv12:SIGFPE"
    ELSE "us_blocking_composite_nv12:need_ft"

\* the destination (the frame DMA buffer) of the composite calls
CompositeDst == {<<1920, 1080>>}

\* what no step of the compositor changes
CompositeFrame == UNCHANGED <<us_g_blocking, blocking_config, overlay_config, raw_frame, ft>>

\* us_blocking_composite_nv12(src, dst); src is named by the thread and the number of
\* its call
us_blocking_composite_nv12(t) ==
    \/ /\ ~us_g_blocking.null
       /\ \E dst \in CompositeDst :
             Call(t, "us_blocking_composite_nv12:lock",
                  [src |-> <<t, local[t].calls + 1>>, dst_width |-> dst[1], dst_height |-> dst[2],
                   config |-> <<>>, bg_data |-> 0, preview |-> <<>>, need_ft |-> FALSE])
       /\ UNCHANGED mutex
       /\ CompositeFrame
       /\ EncoderUntouched
    \/ /\ pc[t] = "us_blocking_composite_nv12:lock"
       /\ MutexLock("us_g_blocking->mutex", t)
       /\ Goto(t, "us_blocking_composite_nv12:snapshot")
       /\ UNCHANGED local
       /\ CompositeFrame
       /\ EncoderUntouched
    \* "Copy scalar values": every field of the configuration but the background bytes
    \/ /\ pc[t] = "us_blocking_composite_nv12:snapshot"
       /\ local' = [local EXCEPT ![t].config =
                       [blocking_config EXCEPT !.background = 0]
                           @@ [enabled |-> us_g_blocking.enabled]]
       /\ Goto(t, "us_blocking_composite_nv12:background")
       /\ UNCHANGED mutex
       /\ CompositeFrame
       /\ EncoderUntouched
    \* "Step 1: Copy or scale background to destination", still under the mutex
    \/ /\ pc[t] = "us_blocking_composite_nv12:background"
       /\ local' = [local EXCEPT ![t].bg_data =
                       IF local[t].config.bg_valid THEN blocking_config.background
                       ELSE GrayFill]
       /\ MutexUnlock("us_g_blocking->mutex", t)
       /\ Goto(t, "us_blocking_composite_nv12:preview")
       /\ CompositeFrame
       /\ EncoderUntouched
    \* "Step 2: Draw preview window" and its border
    \/ /\ pc[t] = "us_blocking_composite_nv12:preview"
       /\ LET rects == PreviewRects(local[t].config, local[t].dst_width, local[t].dst_height)
          IN IF rects = {}
             THEN /\ UNCHANGED local
                  /\ Goto(t, "us_blocking_composite_nv12:need_ft")
             ELSE \E r \in rects :
                     /\ local' = [local EXCEPT ![t].preview = r]
                     /\ Goto(t, ScalerCalled(r.w, r.h))
       /\ UNCHANGED mutex
       /\ CompositeFrame
       /\ EncoderUntouched
    \* "bool need_ft = ..." and the lock that depends on it
    \/ /\ pc[t] = "us_blocking_composite_nv12:need_ft"
       /\ local' = [local EXCEPT ![t].need_ft = NeedFt(local[t].config, ft)]
       /\ Goto(t, IF NeedFt(local[t].config, ft)
                  THEN "us_blocking_composite_nv12:ft_lock"
                  ELSE "us_blocking_composite_nv12:vocab")
       /\ UNCHANGED mutex
       /\ CompositeFrame
       /\ EncoderUntouched
    \/ /\ pc[t] = "us_blocking_composite_nv12:ft_lock"
       /\ MutexLock("_ft_mutex", t)
       /\ Goto(t, "us_blocking_composite_nv12:vocab")
       /\ UNCHANGED local
       /\ CompositeFrame
       /\ EncoderUntouched
    \* "Step 3: Draw vocabulary text": nothing, the bitmap font, or the TrueType face
    \/ /\ pc[t] = "us_blocking_composite_nv12:vocab"
       /\ Goto(t, IF local[t].config.text_vocab # "" /\ ft.face_vocab /\ ft.initialized
                  THEN "us_blocking_composite_nv12:vocab_ft"
                  ELSE "us_blocking_composite_nv12:stats")
       /\ UNCHANGED <<local, mutex>>
       /\ CompositeFrame
       /\ EncoderUntouched
    \* _ft_calc_text_size and _ft_draw_text_nv12 on _ft_face_vocab
    \/ /\ pc[t] = "us_blocking_composite_nv12:vocab_ft"
       /\ Goto(t, "us_blocking_composite_nv12:stats")
       /\ UNCHANGED <<local, mutex>>
       /\ CompositeFrame
       /\ EncoderUntouched
    \* "Step 4: Draw stats text"
    \/ /\ pc[t] = "us_blocking_composite_nv12:stats"
       /\ Goto(t, IF local[t].config.text_stats # "" /\ ft.face_stats /\ ft.initialized
                  THEN "us_blocking_composite_nv12:stats_ft"
                  ELSE "us_blocking_composite_nv12:ft_unlock")
       /\ UNCHANGED <<local, mutex>>
       /\ CompositeFrame
       /\ EncoderUntouched
    \* _ft_calc_text_size and _ft_draw_text_nv12 on _ft_face_stats
    \/ /\ pc[t] = "us_blocking_composite_nv12:stats_ft"
       /\ Goto(t, "us_blocking_composite_nv12:ft_unlock")
       /\ UNCHANGED <<local, mutex>>
       /\ CompositeFrame
       /\ EncoderUntouched
    \* "if (need_ft) pthread_mutex_unlock(&_ft_mutex)" and the return
    \/ /\ pc[t] = "us_blocking_composite_nv12:ft_unlock"
       /\ IF local[t].need_ft THEN MutexUnlock("_ft_mutex", t) ELSE UNCHANGED mutex
       /\ pc' = [pc EXCEPT ![t] = "idle"]
       /\ local' = [local EXCEPT ![t] = [calls |-> local[t].calls, ret |-> 0,
                                         src |-> local[t].src]]
       /\ CompositeFrame
       /\ EncoderUntouched

(***************************************************************************)
(* One HTTP handler thread changes the configurations while one encoder    *)
(* worker draws from them.                                                 *)
(***************************************************************************)
InitSetters == LibInit

NextSetters ==
    \/ us_overlay_set_position("api1")
    \/ us_blocking_set_background_jpeg_call("api1")
    \/ us_blocking_set_background_jpeg_decode("api1")
    \/ us_blocking_set_background_jpeg_lock("api1")
    \/ us_blocking_set_background_jpeg_convert("api1")
    \/ us_blocking_set_background_jpeg_commit("api1")
    \/ us_blocking_set_preview("api1")
    \/ us_blocking_set_text_vocab("api1")
    \/ us_blocking_set_text_stats("api1")
    \/ us_overlay_draw_nv12("worker1")
    \/ us_blocking_composite_nv12("worker1")

SettersSpec == InitSetters /\ [][NextSetters]_vars

\* the places of us_overlay_draw_nv12 and us_blocking_composite_nv12 at which the
\* function works from its snapshot
OverlaySnapshotTaken(t) == pc[t] = "us_overlay_draw_nv12:draw"

CompositeBackgroundDrawn(t) ==
    pc[t] \in {"us_blocking_composite_nv12:preview", "us_blocking_composite_nv12:need_ft",
               "us_blocking_composite_nv12:ft_lock", "us_blocking_composite_nv12:vocab",
               "us_blocking_composite_nv12:vocab_ft", "us_blocking_composite_nv12:stats",
               "us_blocking_composite_nv12:stats_ft", "us_blocking_composite_nv12:ft_unlock"}

\* C12: a draw never works from a configuration in which one setter call is partly
\* applied: in the snapshot of an overlay draw the position preset, x and y come from
\* one us_overlay_set_position call, and in a composite the background width and
\* height of the snapshot and the background bytes it has drawn come from one upload.
C12_OneCoherentSnapshot ==
    \A t \in Threads :
        /\ OverlaySnapshotTaken(t) =>
              /\ local[t].config.position = local[t].config.x
              /\ local[t].config.x = local[t].config.y
        /\ CompositeBackgroundDrawn(t) =>
              /\ local[t].config.bg_width = local[t].config.bg_height
              /\ local[t].config.bg_valid => local[t].bg_data = local[t].config.bg_width
              /\ ~local[t].config.bg_valid => local[t].bg_data = GrayFill

\* the worker composites from the first upload while the second upload holds the
\* mutex and has written its bytes but not its width and height
C12_Witness ==
    /\ pc["worker1"] = "us_blocking_composite_nv12:preview"
    /\ local["worker1"].bg_data = 1
    /\ local["worker1"].config.bg_width = 1
    /\ pc["api1"] = "us_blocking_set_background_jpeg:commit"
    /\ blocking_config.background = 2
    /\ blocking_config.bg_width = 1

(***************************************************************************)
(* Two encoder workers composite at the same time, with the texts that the *)
(* HTTP handlers have set before.                                          *)
(***************************************************************************)
InitFt ==
    /\ life = "none"
    /\ enc = ZeroEnc
    /\ heap = <<>>
    /\ uaf = FALSE
    /\ dfree = FALSE
    /\ trace = <<>>
    /\ op = "none"
    /\ ret = 0
    /\ src = NoFrame
    /\ target = <<0, 0>>
    /\ dest = ZeroFrame
    /\ now = 0
    /\ us_g_encode_scale = "US_ENCODE_SCALE_NATIVE"
    /\ us_g_overlay = TRUE
    /\ us_g_blocking = [null |-> FALSE, enabled |-> TRUE, enabled_fast |-> TRUE]
    /\ pc = [t \in Threads |-> "idle"]
    /\ local = [t \in Threads |-> NoLocals]
    /\ mutex = [m \in Mutexes |-> "free"]
    /\ overlay_config = ZeroOverlayConfig
    /\ raw_frame = ZeroRawFrame
    /\ ft \in _ft_init
    /\ \E vocab \in Texts, stats \in Texts :
          blocking_config = [ZeroBlockingConfig EXCEPT !.text_vocab = vocab,
                                                       !.text_stats = stats]

NextFt ==
    \/ us_blocking_composite_nv12("worker1")
    \/ us_blocking_composite_nv12("worker2")

FtSpec == InitFt /\ [][NextFt]_vars

\* the places of the compositor at which it works on a TrueType face
\* (_ft_calc_text_size, _ft_draw_text_nv12)
FtPlaces == {"us_blocking_composite_nv12:vocab_ft", "us_blocking_composite_nv12:stats_ft"}

\* C13: at most one worker is in a TrueType face operation of the compositor at a
\* time: a worker in one holds _ft_mutex, and a worker that has returned from the
\* compositor does not hold it.
C13_FtUnderMutex ==
    \A t \in Threads :
        /\ pc[t] \in FtPlaces => mutex["_ft_mutex"] = t
        /\ pc[t] = "idle" => mutex["_ft_mutex"] # t
        /\ \A u \in Threads : pc[t] \in FtPlaces /\ pc[u] \in FtPlaces => t = u

\* one worker rasterises the stats text while the other waits for the mutex
C13_Witness ==
    /\ pc["worker1"] = "us_blocking_composite_nv12:stats_ft"
    /\ pc["worker2"] = "us_blocking_composite_nv12:ft_lock"
    /\ mutex["_ft_mutex"] = "worker1"
    /\ local["worker1"].calls = 2

(***************************************************************************)
(* The raw-frame cache: us_blocking_store_raw_frame, us_blocking_get_raw_  *)
(* frame, us_blocking_release_raw_frame and _raw_frame_cleanup.            *)
(***************************************************************************)
\* what no function of the raw-frame cache changes
RawFrameFrame ==
    /\ UNCHANGED <<us_g_blocking, blocking_config, overlay_config, ft>>
    /\ EncoderUntouched

\* the number that stands for the bytes of the frame thread t passes in its k-th call
FrameNo(t, k) ==
    k + 10 * (CHOOSE i \in 1..5 : <<"api1", "api2", "worker1", "worker2", "reader">>[i] = t)

\* width, height, stride of the stored frames
RawInputs == {<<0, 48, 64>>, <<64, 48, 64>>, <<128, 96, 128>>}

\* frame_size = stride * height + stride * (height / 2)
RawFrameSize(height, stride) == stride * height + stride * (height \div 2)

\* a failed malloc that leaves the cache marked valid
MallocFailed_keeps_valid(rf) == [rf EXCEPT !.buf = NULL, !.size = 0]

\* "if (_raw_frame_buf == NULL)" after the malloc: the statics on the failure path
MallocFailed(rf) == [rf EXCEPT !.buf = NULL, !.size = 0, !.valid = FALSE]

\* us_blocking_store_raw_frame(data, width, height, stride), one disjunct a step
us_blocking_store_raw_frame(t) ==
    \/ /\ \E in \in RawInputs :
             Call(t, IF in[1] = 0 \/ in[2] = 0 THEN "us_blocking_store_raw_frame:return"
                     ELSE "us_blocking_store_raw_frame:lock",
                  [data |-> FrameNo(t, local[t].calls + 1), width |-> in[1],
                   height |-> in[2], stride |-> in[3],
                   frame_size |-> RawFrameSize(in[2], in[3])])
       /\ UNCHANGED <<mutex, raw_frame>>
       /\ RawFrameFrame
    \/ /\ pc[t] = "us_blocking_store_raw_frame:return"
       /\ Return(t)
       /\ UNCHANGED <<mutex, raw_frame>>
       /\ RawFrameFrame
    \/ /\ pc[t] = "us_blocking_store_raw_frame:lock"
       /\ MutexLock("_raw_frame_mutex", t)
       /\ Goto(t, "us_blocking_store_raw_frame:realloc")
       /\ UNCHANGED <<local, raw_frame>>
       /\ RawFrameFrame
    \/ /\ pc[t] = "us_blocking_store_raw_frame:realloc"
       /\ raw_frame.buf # NULL /\ raw_frame.size >= local[t].frame_size
       /\ Goto(t, "us_blocking_store_raw_frame:memcpy")
       /\ UNCHANGED <<local, mutex, raw_frame>>
       /\ RawFrameFrame
    \/ /\ pc[t] = "us_blocking_store_raw_frame:realloc"
       /\ raw_frame.buf = NULL \/ raw_frame.size < local[t].frame_size
       /\ raw_frame' = [raw_frame EXCEPT !.buf = Uninitialized,
                                         !.size = local[t].frame_size]
       /\ Goto(t, "us_blocking_store_raw_frame:memcpy")
       /\ UNCHANGED <<local, mutex>>
       /\ RawFrameFrame
    \/ /\ pc[t] = "us_blocking_store_raw_frame:realloc"
       /\ raw_frame.buf = NULL \/ raw_frame.size < local[t].frame_size
       /\ raw_frame' = MallocFailed(raw_frame)
       /\ MutexUnlock("_raw_frame_mutex", t)
       /\ Return(t)
       /\ RawFrameFrame
    \/ /\ pc[t] = "us_blocking_store_raw_frame:memcpy"
       /\ raw_frame' = [raw_frame EXCEPT !.buf = local[t].data]
       /\ Goto(t, "us_blocking_store_raw_frame:geometry")
       /\ UNCHANGED <<local, mutex>>
       /\ RawFrameFrame
    \/ /\ pc[t] = "us_blocking_store_raw_frame:geometry"
       /\ raw_frame' = [raw_frame EXCEPT !.width = local[t].width,
                                         !.height = local[t].height,
                                         !.stride = local[t].stride]
       /\ Goto(t, "us_blocking_store_raw_frame:valid")
       /\ UNCHANGED <<local, mutex>>
       /\ RawFrameFrame
    \/ /\ pc[t] = "us_blocking_store_raw_frame:valid"
       /\ raw_frame' = [raw_frame EXCEPT !.valid = TRUE]
       /\ MutexUnlock("_raw_frame_mutex", t)
       /\ Return(t)
       /\ RawFrameFrame

\* the place of a caller between a us_blocking_get_raw_frame that returned the buffer
\* and its us_blocking_release_raw_frame
RawFrameHeld == "caller:raw_frame_held"

\* a get that unlocks on both paths, as us_blocking_has_raw_frame does
us_blocking_get_raw_frame_unlocks(t) ==
    \/ /\ Call(t, "us_blocking_get_raw_frame:lock", [seen |-> ZeroRawFrame])
       /\ UNCHANGED <<mutex, raw_frame>>
       /\ RawFrameFrame
    \/ /\ pc[t] = "us_blocking_get_raw_frame:lock"
       /\ MutexLock("_raw_frame_mutex", t)
       /\ Goto(t, "us_blocking_get_raw_frame:test")
       /\ UNCHANGED <<local, raw_frame>>
       /\ RawFrameFrame
    \/ /\ pc[t] = "us_blocking_get_raw_frame:test"
       /\ MutexUnlock("_raw_frame_mutex", t)
       /\ IF ~raw_frame.valid \/ raw_frame.buf = NULL
          THEN ReturnValue(t, NULL)
          ELSE /\ pc' = [pc EXCEPT ![t] = RawFrameHeld]
               /\ local' = [local EXCEPT ![t].ret = 1, ![t].seen = raw_frame]
       /\ UNCHANGED raw_frame
       /\ RawFrameFrame

\* us_blocking_get_raw_frame(&width, &height, &stride): ret is NULL or 1 (the buffer),
\* seen is what the caller has been given: the bytes behind the pointer and the three
\* outputs
us_blocking_get_raw_frame(t) ==
    \/ /\ Call(t, "us_blocking_get_raw_frame:lock", [seen |-> ZeroRawFrame])
       /\ UNCHANGED <<mutex, raw_frame>>
       /\ RawFrameFrame
    \/ /\ pc[t] = "us_blocking_get_raw_frame:lock"
       /\ MutexLock("_raw_frame_mutex", t)
       /\ Goto(t, "us_blocking_get_raw_frame:test")
       /\ UNCHANGED <<local, raw_frame>>
       /\ RawFrameFrame
    \/ /\ pc[t] = "us_blocking_get_raw_frame:test"
       /\ ~raw_frame.valid \/ raw_frame.buf = NULL
       /\ MutexUnlock("_raw_frame_mutex", t)
       /\ ReturnValue(t, NULL)
       /\ UNCHANGED raw_frame
       /\ RawFrameFrame
    \/ /\ pc[t] = "us_blocking_get_raw_frame:test"
       /\ raw_frame.valid /\ raw_frame.buf # NULL
       /\ pc' = [pc EXCEPT ![t] = RawFrameHeld]
       /\ local' = [local EXCEPT ![t].ret = 1, ![t].seen = raw_frame]
       /\ UNCHANGED <<mutex, raw_frame>>
       /\ RawFrameFrame

\* us_blocking_release_raw_frame(), called by the thread that was given the buffer
\* the release that returns without the unlock
us_blocking_release_raw_frame_keeps_lock(t) ==
    /\ pc[t] = RawFrameHeld
    /\ Return(t)
    /\ UNCHANGED <<mutex, raw_frame>>
    /\ RawFrameFrame

us_blocking_release_raw_frame(t) ==
    /\ pc[t] = RawFrameHeld
    /\ MutexUnlock("_raw_frame_mutex", t)
    /\ Return(t)
    /\ UNCHANGED raw_frame
    /\ RawFrameFrame

\* _raw_frame_cleanup(), one disjunct a step
_raw_frame_cleanup(t) ==
    \/ /\ Call(t, "_raw_frame_cleanup:lock", <<>>)
       /\ UNCHANGED <<mutex, raw_frame>>
       /\ RawFrameFrame
    \/ /\ pc[t] = "_raw_frame_cleanup:lock"
       /\ MutexLock("_raw_frame_mutex", t)
       /\ Goto(t, "_raw_frame_cleanup:free")
       /\ UNCHANGED <<local, raw_frame>>
       /\ RawFrameFrame
    \/ /\ pc[t] = "_raw_frame_cleanup:free"
       /\ raw_frame' = [raw_frame EXCEPT !.buf = NULL, !.size = 0]
       /\ Goto(t, "_raw_frame_cleanup:reset")
       /\ UNCHANGED <<local, mutex>>
       /\ RawFrameFrame
    \/ /\ pc[t] = "_raw_frame_cleanup:reset"
       /\ raw_frame' = [raw_frame EXCEPT !.width = 0, !.height = 0, !.stride = 0,
                                         !.valid = FALSE]
       /\ MutexUnlock("_raw_frame_mutex", t)
       /\ Return(t)
       /\ RawFrameFrame

(***************************************************************************)
(* A worker stores frames, two readers get and release the buffer, and one *)
(* thread cleans the cache up.                                             *)
(***************************************************************************)
InitRaw == LibInit /\ ft = ZeroFt

NextRaw ==
    \/ us_blocking_store_raw_frame("worker1")
    \/ us_blocking_get_raw_frame("reader")
    \/ us_blocking_release_raw_frame("reader")
    \/ us_blocking_get_raw_frame("api1")
    \/ us_blocking_release_raw_frame("api1")
    \/ _raw_frame_cleanup("api2")

RawSpec == InitRaw /\ [][NextRaw]_vars

\* the places at which a thread reads or writes the raw-frame statics
RawFramePlaces ==
    {"us_blocking_store_raw_frame:realloc", "us_blocking_store_raw_frame:memcpy",
     "us_blocking_store_raw_frame:geometry", "us_blocking_store_raw_frame:valid",
     "us_blocking_get_raw_frame:test", "_raw_frame_cleanup:free",
     "_raw_frame_cleanup:reset"}

\* C14: a thread that was returned the buffer by us_blocking_get_raw_frame holds
\* _raw_frame_mutex until it releases it, no other thread is then at a place that
\* reads or writes the cache, and the cached bytes, width, height, stride and
\* validity are those it was given; a thread that was returned NULL, or that has
\* released, does not hold the mutex.
C14_BufferHeldUnderMutex ==
    \A t \in Threads :
        /\ pc[t] = RawFrameHeld =>
              /\ mutex["_raw_frame_mutex"] = t
              /\ raw_frame = local[t].seen
              /\ raw_frame.valid /\ raw_frame.buf > 0
              /\ \A u \in Threads \ {t} : pc[u] \notin RawFramePlaces \cup {RawFrameHeld}
        /\ pc[t] = "idle" => mutex["_raw_frame_mutex"] # t

\* the reader holds the buffer of worker1's first frame while worker1 waits to store
\* its second, the other reader waits to get and the cleanup waits to free
C14_Witness ==
    /\ pc["reader"] = RawFrameHeld
    /\ local["reader"].seen.buf = FrameNo("worker1", 1)
    /\ local["reader"].seen.width = 128
    /\ pc["worker1"] = "us_blocking_store_raw_frame:lock"
    /\ pc["api1"] = "us_blocking_get_raw_frame:lock"
    /\ pc["api2"] = "_raw_frame_cleanup:lock"

\* C15: when a composite returns, the raw-frame cache is valid and holds the bytes of
\* the source frame of that call.
C15_CompositeStoresRawFrame ==
    [][\A t \in Threads :
          pc[t] = "us_blocking_composite_nv12:ft_unlock" /\ pc'[t] = "idle" =>
              /\ raw_frame'.valid
              /\ raw_frame'.buf = FrameNo(t, local[t].src[2])]_vars

\* the calls that copy the source into the frame DMA buffer
CopyCalls == {"_downscale_nv12", "_copy_nv12_aligned", "memcpy"}

\* C16: in a compress that reaches the copy, the memset of the whole frame DMA buffer
\* precedes the copy, and in the buffer as the call leaves it every byte that the copy
\* of this call did not write is zero: the bytes of the copy are those of this call and
\* none is of an earlier frame or as the allocator left it.
C16_ZeroFilledBeforeCopy ==
    [][(CompressStep /\ \E i \in DOMAIN trace' : trace'[i][1] \in CopyCalls) =>
          /\ FirstOf(trace', "memset") > 0
          /\ \A i \in DOMAIN trace' :
                trace'[i][1] \in CopyCalls => FirstOf(trace', "memset") < i
          /\ Live(heap', enc'.frame_buf)
          /\ heap'[enc'.frame_buf].data = [image |-> now', rest |-> 0]
      ]_vars

\* the second compress has copied its frame into the buffer that holds the first
C16_Witness ==
    /\ op = "compress"
    /\ now = 2
    /\ \E i \in DOMAIN trace : trace[i][1] \in CopyCalls
    /\ ~Has(trace, "mpp_buffer_get")
    /\ Live(heap, enc.frame_buf)
    /\ heap[enc.frame_buf].data = [image |-> 2, rest |-> 0]

\* the places of us_blocking_set_background_jpeg
UploadPlaces ==
    {"us_blocking_set_background_jpeg:decode", "us_blocking_set_background_jpeg:lock",
     "us_blocking_set_background_jpeg:convert", "us_blocking_set_background_jpeg:commit"}

\* C17: a us_blocking_set_background_jpeg that returns -1 leaves the background bytes,
\* bg_width, bg_height and bg_valid as they were when it was called; the four change
\* only in steps of an upload that holds the blocking mutex, and the upload that
\* returns 0 has written all four (bg_valid = true) between one lock and its unlock.
C17_UploadAllOrNothing ==
    [][\A t \in Threads :
          /\ (pc[t] \in UploadPlaces /\ pc'[t] = "idle" /\ local'[t].ret = -1) =>
                BgFields(blocking_config') = local[t].entry
          /\ (pc[t] \in UploadPlaces /\ pc'[t] = "idle" /\ local'[t].ret = 0) =>
                /\ pc[t] = "us_blocking_set_background_jpeg:commit"
                /\ mutex["us_g_blocking->mutex"] = t
                /\ mutex'["us_g_blocking->mutex"] = "free"
                /\ BgFields(blocking_config') =
                      <<local[t].calls, local[t].calls, local[t].calls, TRUE>>
          /\ pc[t] \in {"us_blocking_set_background_jpeg:convert",
                        "us_blocking_set_background_jpeg:commit"} =>
                mutex["us_g_blocking->mutex"] = t
          /\ BgFields(blocking_config') # BgFields(blocking_config) =>
                \E u \in Threads :
                    /\ mutex["us_g_blocking->mutex"] = u
                    /\ pc[u] \in {"us_blocking_set_background_jpeg:convert",
                                  "us_blocking_set_background_jpeg:commit"}
      ]_vars

\* the second upload has failed and the background of the first is in place
C17_Witness ==
    /\ pc["api1"] = "idle"
    /\ local["api1"].calls = 2
    /\ local["api1"].ret = -1
    /\ BgFields(blocking_config) = <<1, 1, 1, TRUE>>

\* C18: an upload that has passed the size test has a decoded image whose NV12 size
\* width * height * 3 / 2 is at most US_BLOCKING_MAX_BG_SIZE, and its conversion writes
\* no byte past the first US_BLOCKING_MAX_BG_SIZE bytes of the background buffer.
C18_AcceptedBackgroundFitsBuffer ==
    \A t \in Threads :
        pc[t] \in {"us_blocking_set_background_jpeg:lock",
                   "us_blocking_set_background_jpeg:convert",
                   "us_blocking_set_background_jpeg:commit"} =>
            /\ local[t].jpeg.width <= ((US_BLOCKING_MAX_BG_SIZE * 2) \div 3) \div local[t].jpeg.height
            /\ ~WritesBeyondBackground(local[t].jpeg.width, local[t].jpeg.height)

(***************************************************************************)
(* One worker composites with a preview that us_blocking_set_preview has   *)
(* set before, for previews that fit the 1920x1080 destination.            *)
(***************************************************************************)
\* x and y of the preview: int
PreviewXs == {-2000, -40, -1, 0, 101, 1536, 1537, 5000, IntMax - 384, IntMax - 383, IntMax}

PreviewYs == {-2000, -40, 0, 51, 865, IntMax}

\* w and h of the preview
PreviewWHs == {<<384, 216>>, <<385, 217>>, <<2, 2>>, <<1920, 1080>>, <<1, 1>>, <<5000, 1>>}

InitPreview ==
    /\ life = "none"
    /\ enc = ZeroEnc
    /\ heap = <<>>
    /\ uaf = FALSE
    /\ dfree = FALSE
    /\ trace = <<>>
    /\ op = "none"
    /\ ret = 0
    /\ src = NoFrame
    /\ target = <<0, 0>>
    /\ dest = ZeroFrame
    /\ now = 0
    /\ us_g_encode_scale = "US_ENCODE_SCALE_NATIVE"
    /\ us_g_overlay = TRUE
    /\ us_g_blocking = [null |-> FALSE, enabled |-> TRUE, enabled_fast |-> TRUE]
    /\ pc = [t \in Threads |-> "idle"]
    /\ local = [t \in Threads |-> NoLocals]
    /\ mutex = [m \in Mutexes |-> "free"]
    /\ overlay_config = ZeroOverlayConfig
    /\ raw_frame = ZeroRawFrame
    /\ ft = [initialized |-> TRUE, face_vocab |-> TRUE, face_stats |-> TRUE]
    /\ \E x \in PreviewXs, y \in PreviewYs, wh \in PreviewWHs :
          blocking_config = [ZeroBlockingConfig EXCEPT
                                !.preview_x = x, !.preview_y = y,
                                !.preview_w = wh[1], !.preview_h = wh[2],
                                !.preview_enabled = TRUE,
                                !.text_vocab = "hola", !.text_stats = "hola"]

NextPreview == us_blocking_composite_nv12("worker1")

PreviewSpec == InitPreview /\ [][NextPreview]_vars

\* one axis of the position as the specification has it: a negative p is taken from
\* the far edge, the result is clamped to [0, dst - size] and rounded down to even
PlacedAt(p, size, dst) ==
    LET a == IF p < 0 THEN dst + p - size ELSE p
        b == IF a < 0 THEN 0 ELSE IF a > dst - size THEN dst - size ELSE a
    IN b - (b % 2)

\* C19: the preview step of a composite whose enabled preview fits the destination
\* draws the preview with even width and height at the even position that the
\* resolution of negative coordinates, the clamp to [0, dst_w - w] x [0, dst_h - h]
\* and the rounding give, inside the destination.
C19_PreviewInsideDestination ==
    [][\A t \in Threads :
          (/\ pc[t] = "us_blocking_composite_nv12:preview"
           /\ pc'[t] = "us_blocking_composite_nv12:need_ft"
           /\ local[t].config.preview_enabled
           /\ local[t].config.preview_w \in 1..local[t].dst_width
           /\ local[t].config.preview_h \in 1..local[t].dst_height) =>
             LET c == local[t].config
                 w == c.preview_w - (c.preview_w % 2)
                 h == c.preview_h - (c.preview_h % 2)
                 r == local'[t].preview
             IN /\ r.w = w /\ r.h = h
                /\ r.x = PlacedAt(c.preview_x, w, local[t].dst_width)
                /\ r.y = PlacedAt(c.preview_y, h, local[t].dst_height)
                /\ r.x >= 0 /\ r.x <= local[t].dst_width - r.w
                /\ r.y >= 0 /\ r.y <= local[t].dst_height - r.h
                /\ r.x % 2 = 0 /\ r.y % 2 = 0
      ]_vars

(***************************************************************************)
(* The geometry of us_overlay_draw_nv12: _calc_position, the background    *)
(* box and the text, from a snapshot of the configuration.                 *)
(***************************************************************************)
us_overlay_pos_e ==
    {"US_OVERLAY_POS_TOP_LEFT", "US_OVERLAY_POS_TOP_RIGHT", "US_OVERLAY_POS_BOTTOM_LEFT",
     "US_OVERLAY_POS_BOTTOM_RIGHT", "US_OVERLAY_POS_CENTER", "US_OVERLAY_POS_CUSTOM"}

\* a / 2 of two ints, which truncates towards zero
Half(a) == IF a >= 0 THEN a \div 2 ELSE -((-a) \div 2)

\* "Clamp to frame bounds" on one axis: the values *out_x can end with.  The sum
\* "*out_x + (int)total_width" overflows the int when *out_x > INT_MAX - total_width;
\* the test then goes either way.
ClampToFrame(p, total, frame) ==
    LET a == IF p < 0 THEN 0 ELSE p
    IN IF a > IntMax - total THEN {a, frame - total}
       ELSE IF a + total > frame THEN {frame - total}
       ELSE {a}

\* _calc_position: the positions <<out_x, out_y>> it can give
_calc_position(config, frame_width, frame_height, text_width, text_height) ==
    LET total_width == text_width + 2 * config.padding
        total_height == text_height + 2 * config.padding
        x == CASE config.position \in {"US_OVERLAY_POS_TOP_LEFT", "US_OVERLAY_POS_BOTTOM_LEFT"}
                    -> config.padding
               [] config.position \in {"US_OVERLAY_POS_TOP_RIGHT", "US_OVERLAY_POS_BOTTOM_RIGHT"}
                    -> frame_width - total_width
               [] config.position = "US_OVERLAY_POS_CENTER"
                    -> Half(frame_width - total_width)
               [] OTHER -> config.x
        y == CASE config.position \in {"US_OVERLAY_POS_TOP_LEFT", "US_OVERLAY_POS_TOP_RIGHT"}
                    -> config.padding
               [] config.position \in {"US_OVERLAY_POS_BOTTOM_LEFT", "US_OVERLAY_POS_BOTTOM_RIGHT"}
                    -> frame_height - total_height
               [] config.position = "US_OVERLAY_POS_CENTER"
                    -> Half(frame_height - total_height)
               [] OTHER -> config.y
    IN {<<ox, oy>> : ox \in ClampToFrame(x, total_width, frame_width),
                     oy \in ClampToFrame(y, total_height, frame_height)}

\* bg_x, bg_y_pos: the origin of the background box on one axis
BoxOrigin(pos, padding) == IF pos > padding THEN pos - padding ELSE 0

\* the inputs of the geometry: custom x and y, paddings, text sizes, frames
OverlayXs == {-5, 0, 8, 700, 1900, IntMax}

OverlayYs == {0, 8, 1070, IntMax}

OverlayPaddings == {0, 8, 100}

OverlayTexts == {<<16, 16>>, <<160, 32>>, <<1904, 1064>>, <<2048, 16>>}

OverlayFrames == {<<1920, 1080>>, <<640, 480>>}

\* a worker in us_overlay_draw_nv12 that has taken its snapshot (enabled, with a text
\* and a background) and measured the text
InitOverlayPos ==
    /\ life = "none"
    /\ enc = ZeroEnc
    /\ heap = <<>>
    /\ uaf = FALSE
    /\ dfree = FALSE
    /\ trace = <<>>
    /\ op = "none"
    /\ ret = 0
    /\ src = NoFrame
    /\ target = <<0, 0>>
    /\ dest = ZeroFrame
    /\ now = 0
    /\ us_g_encode_scale = "US_ENCODE_SCALE_NATIVE"
    /\ us_g_overlay = TRUE
    /\ us_g_blocking = [null |-> FALSE, enabled |-> FALSE, enabled_fast |-> FALSE]
    /\ pc = [t \in Threads |-> IF t = "worker1" THEN "us_overlay_draw_nv12:position"
                               ELSE "idle"]
    /\ mutex = [m \in Mutexes |-> "free"]
    /\ blocking_config = ZeroBlockingConfig
    /\ overlay_config = ZeroOverlayConfig
    /\ raw_frame = ZeroRawFrame
    /\ ft = ZeroFt
    /\ \E position \in us_overlay_pos_e, x \in OverlayXs, y \in OverlayYs,
          padding \in OverlayPaddings, text \in OverlayTexts, frame \in OverlayFrames :
          local = [t \in Threads |->
                      IF t = "worker1"
                      THEN [calls |-> 1, ret |-> 0,
                            config |-> [position |-> position, x |-> x, y |-> y,
                                        padding |-> padding],
                            width |-> frame[1], height |-> frame[2],
                            text_width |-> text[1], text_height |-> text[2],
                            pos |-> <<0, 0>>, box |-> <<0, 0, 0, 0>>]
                      ELSE NoLocals]

\* "Calculate position"
us_overlay_draw_nv12_geometry(t) ==
    \/ /\ pc[t] = "us_overlay_draw_nv12:position"
       /\ \E pos \in _calc_position(local[t].config, local[t].width, local[t].height,
                                    local[t].text_width, local[t].text_height) :
             local' = [local EXCEPT ![t].pos = pos]
       /\ Goto(t, "us_overlay_draw_nv12:box")
       /\ UNCHANGED <<us_g_blocking, mutex, blocking_config, overlay_config, raw_frame, ft>>
       /\ EncoderUntouched
    \* "Draw background if enabled": the box <<bg_x, bg_y_pos, bg_width, bg_height>>
    \/ /\ pc[t] = "us_overlay_draw_nv12:box"
       /\ local' = [local EXCEPT ![t].box =
                       <<BoxOrigin(local[t].pos[1], local[t].config.padding),
                         BoxOrigin(local[t].pos[2], local[t].config.padding),
                         local[t].text_width + 2 * local[t].config.padding,
                         local[t].text_height + 2 * local[t].config.padding>>]
       /\ Goto(t, "us_overlay_draw_nv12:text")
       /\ UNCHANGED <<us_g_blocking, mutex, blocking_config, overlay_config, raw_frame, ft>>
       /\ EncoderUntouched
    \* "Draw text", from pos, and the return
    \/ /\ pc[t] = "us_overlay_draw_nv12:text"
       /\ Return(t)
       /\ UNCHANGED <<us_g_blocking, mutex, blocking_config, overlay_config, raw_frame, ft>>
       /\ EncoderUntouched

NextOverlayPos ==
    \/ us_overlay_draw_nv12_geometry("worker1")

OverlayPosSpec == InitOverlayPos /\ [][NextOverlayPos]_vars

\* C20: when the text and twice the padding fit the frame in both dimensions, the box
\* that us_overlay_draw_nv12 draws lies inside the frame and the rectangle of the text
\* lies inside the box, for every preset and every custom (x, y).
C20_BoxInsideFrame ==
    \A t \in Threads :
        (/\ pc[t] = "us_overlay_draw_nv12:text"
         /\ local[t].text_width + 2 * local[t].config.padding <= local[t].width
         /\ local[t].text_height + 2 * local[t].config.padding <= local[t].height) =>
            LET box == local[t].box
                pos == local[t].pos
            IN /\ box[1] >= 0 /\ box[1] <= local[t].width - box[3]
               /\ box[2] >= 0 /\ box[2] <= local[t].height - box[4]
               /\ box[1] <= pos[1] /\ pos[1] - box[1] <= box[3] - local[t].text_width
               /\ box[2] <= pos[2] /\ pos[2] - box[2] <= box[4] - local[t].text_height

\* C21: for an NV12 source of even width and height the resolved target is even in
\* both dimensions, and a downscale to it reads luma only at rows below src_h and
\* columns below src_w, reads each chroma pair at an even column with both bytes below
\* src_w and at a row below src_h / 2, and writes each pair at an even column of the
\* destination with both bytes inside its width.
C21_DownscaleStaysInSource ==
    (/\ op \in {"resolve", "downscale", "SIGFPE"}
     /\ src.format = "NV12" /\ src.width % 2 = 0 /\ src.height % 2 = 0) =>
        /\ target[1] % 2 = 0 /\ target[2] % 2 = 0
        /\ op # "SIGFPE"
        /\ op = "downscale" =>
              LET r == local["worker1"].reads
              IN /\ \A sy \in r.y_rows : sy < src.height
                 /\ \A sx \in r.y_cols : sx < src.width
                 /\ \A sy \in r.uv_rows : sy < src.height \div 2
                 /\ \A sx \in r.uv_cols : sx % 2 = 0 /\ sx + 1 < src.width
                 /\ \A dx \in r.uv_dst : dx % 2 = 0 /\ dx + 1 < target[1]

\* 4096x2304 is downscaled to 1920x1080: the chroma pair of destination column 8 is
\* read at column 16, not at the column 17 its luma sample comes from, and the last
\* row read is the last but one of the source
C21_Witness ==
    /\ op = "downscale"
    /\ src.width = 4096 /\ src.height = 2304
    /\ target = <<1920, 1080>>
    /\ 17 \in local["worker1"].reads.y_cols
    /\ 16 \in local["worker1"].reads.uv_cols
    /\ 17 \notin local["worker1"].reads.uv_cols
    /\ 2301 \in local["worker1"].reads.y_rows

\* the places inside the critical section of a store or a cleanup
RawWritePlaces ==
    {"us_blocking_store_raw_frame:realloc", "us_blocking_store_raw_frame:memcpy",
     "us_blocking_store_raw_frame:geometry", "us_blocking_store_raw_frame:valid",
     "_raw_frame_cleanup:free", "_raw_frame_cleanup:reset"}

\* C22: after every step that leaves no store or cleanup inside its critical section (the
\* cache starts invalid), a valid cache has
\* a buffer of capacity at least stride * height + stride * (height / 2) for the
\* recorded stride and height; a store whose allocation fails returns with the mutex
\* released and leaves the cache invalid, without a buffer and with capacity 0.
C22_ValidCacheHasCapacity ==
    [][/\ (\A t \in Threads : pc'[t] \notin RawWritePlaces) =>
             (raw_frame'.valid =>
                 /\ raw_frame'.buf # NULL
                 /\ raw_frame'.size >= RawFrameSize(raw_frame'.height, raw_frame'.stride))
       /\ \A t \in Threads :
             (pc[t] = "us_blocking_store_raw_frame:realloc" /\ pc'[t] = "idle") =>
                 /\ mutex'["_raw_frame_mutex"] = "free"
                 /\ ~raw_frame'.valid
                 /\ raw_frame'.buf = NULL
                 /\ raw_frame'.size = 0
                 /\ local'[t].ret = 0]_vars

\* the second store of the worker needs a larger buffer, the allocation has failed and
\* the cache that held the first frame is cleared
C22_Witness ==
    /\ pc["worker1"] = "idle"
    /\ local["worker1"].calls = 2
    /\ ~raw_frame.valid /\ raw_frame.buf = NULL /\ raw_frame.size = 0
    /\ raw_frame.width = 64
    /\ mutex["_raw_frame_mutex"] = "free"
    /\ local["api2"].calls = 0

\* C23: no step of a store decreases the capacity of the raw-frame buffer or leaves
\* the cache without the buffer it had; only _raw_frame_cleanup, the teardown, does.
C23_CapacityNeverDecreases ==
    [][(\A t \in Threads : pc[t] \notin {"_raw_frame_cleanup:free",
                                         "_raw_frame_cleanup:reset"}) =>
          /\ raw_frame'.size >= raw_frame.size
          /\ raw_frame.buf # NULL => raw_frame'.buf # NULL]_vars

(***************************************************************************)
(* The pixels of us_overlay_draw_nv12: _draw_rect_nv12 and _draw_char_nv12 *)
(* on a small frame.  A frame is [y, uv]: y maps a pixel <<px, py>> to its *)
(* luma byte, uv maps <<px, py / 2>>, px even, to the pair <<U, V>> at     *)
(* uv_plane[uv_y * uv_stride + px] and the byte after it.                  *)
(***************************************************************************)
\* the width and the height of the frame that is drawn on
DrawWidth == 16

DrawHeight == 16

\* the rows of US_FRAMETEXT_FONT that are drawn, as the set of the <<cx, cy>> whose bit
\* is set: a letter, one pixel at odd coordinates, the whole cell
Glyphs ==
    {{<<2, 0>>, <<3, 0>>, <<1, 1>>, <<4, 1>>, <<0, 2>>, <<5, 2>>, <<0, 3>>, <<1, 3>>,
      <<2, 3>>, <<3, 3>>, <<4, 3>>, <<5, 3>>, <<0, 4>>, <<5, 4>>, <<0, 5>>, <<5, 5>>},
     {<<1, 1>>},
     {<<cx, cy>> : cx \in 0..7, cy \in 0..7}}

\* the chroma pair is written for every pixel
ChromaSite_every_pixel(px, py) == TRUE

\* "(px % 2 == 0) && (py % 2 == 0)": the pixels at which the chroma pair is written
ChromaSite(px, py) == px % 2 = 0 /\ py % 2 = 0

\* "(alpha_fg * bg + alpha_bg * old) >> 8"
Blend(alpha, bg, old) == (alpha * bg + (256 - alpha) * old) \div 256

\* _draw_rect_nv12(..., x, y, width, height, bg_y, bg_u, bg_v, alpha) on frame f
_draw_rect_nv12(f, x, y, width, height, bg, alpha) ==
    LET in(p) == /\ p[1] >= x /\ p[1] < x + width /\ p[1] < DrawWidth
                 /\ p[2] >= y /\ p[2] < y + height /\ p[2] < DrawHeight
    IN [y  |-> [p \in DOMAIN f.y |-> IF in(p) THEN Blend(alpha, bg[1], f.y[p]) ELSE f.y[p]],
        uv |-> [q \in DOMAIN f.uv |->
                   IF \E p \in DOMAIN f.y :
                         in(p) /\ ChromaSite(p[1], p[2]) /\ q = <<p[1] - (p[1] % 2), p[2] \div 2>>
                   THEN <<Blend(alpha, bg[2], f.uv[q][1]), Blend(alpha, bg[3], f.uv[q][2])>>
                   ELSE f.uv[q]]]

\* the pixels of the frame that the glyph drawn at <<x, y>> with the scale covers
GlyphPixels(glyph, x, y, scale) ==
    {p \in (0..(DrawWidth - 1)) \X (0..(DrawHeight - 1)) :
        /\ p[1] >= x /\ p[2] >= y
        /\ <<(p[1] - x) \div scale, (p[2] - y) \div scale>> \in glyph}

\* _draw_char_nv12(..., x, y, ch, scale, fg_y, fg_u, fg_v) on frame f
_draw_char_nv12(f, x, y, glyph, scale, fg) ==
    LET on == GlyphPixels(glyph, x, y, scale)
    IN [y  |-> [p \in DOMAIN f.y |-> IF p \in on THEN fg[1] ELSE f.y[p]],
        uv |-> [q \in DOMAIN f.uv |->
                   IF \E p \in on :
                         ChromaSite(p[1], p[2]) /\ q = <<p[1] - (p[1] % 2), p[2] \div 2>>
                   THEN <<fg[2], fg[3]>>
                   ELSE f.uv[q]]]

\* a frame of one luma value and one chroma pair
FlatFrame(luma, chroma) ==
    [y  |-> [p \in (0..(DrawWidth - 1)) \X (0..(DrawHeight - 1)) |-> luma],
     uv |-> [q \in {<<2 * i, j>> : i \in 0..((DrawWidth - 1) \div 2),
                                   j \in 0..((DrawHeight - 1) \div 2)} |-> chroma]]

\* a worker in us_overlay_draw_nv12 that is about to draw the box: a one-letter text
\* at a custom position, every padding and scale with which it fits the frame
InitOverlayDraw ==
    /\ life = "none"
    /\ enc = ZeroEnc
    /\ heap = <<>>
    /\ uaf = FALSE
    /\ dfree = FALSE
    /\ trace = <<>>
    /\ op = "none"
    /\ ret = 0
    /\ src = NoFrame
    /\ target = <<0, 0>>
    /\ dest = ZeroFrame
    /\ now = 0
    /\ us_g_encode_scale = "US_ENCODE_SCALE_NATIVE"
    /\ us_g_overlay = TRUE
    /\ us_g_blocking = [null |-> FALSE, enabled |-> FALSE, enabled_fast |-> FALSE]
    /\ pc = [t \in Threads |-> IF t = "worker1" THEN "us_overlay_draw_nv12:rect" ELSE "idle"]
    /\ mutex = [m \in Mutexes |-> "free"]
    /\ blocking_config = ZeroBlockingConfig
    /\ overlay_config = ZeroOverlayConfig
    /\ raw_frame = ZeroRawFrame
    /\ ft = ZeroFt
    /\ \E glyph \in Glyphs, x \in {0, 1, 4, 9}, y \in {0, 3, 8}, padding \in {0, 1, 2},
          scale \in {1, 2}, bg_alpha \in {0, 180}, luma \in {16, 100},
          chroma \in {<<128, 128>>, <<60, 200>>} :
          /\ 8 * scale + 2 * padding <= DrawWidth
          /\ \E pos \in _calc_position([position |-> "US_OVERLAY_POS_CUSTOM", x |-> x,
                                        y |-> y, padding |-> padding],
                                       DrawWidth, DrawHeight, 8 * scale, 8 * scale) :
                local = [t \in Threads |->
                            IF t = "worker1"
                            THEN [calls |-> 1, ret |-> 0,
                                  config |-> [padding |-> padding, scale |-> scale,
                                              bg_alpha |-> bg_alpha,
                                              bg |-> <<16, 128, 128>>,
                                              fg |-> <<235, 90, 240>>],
                                  glyph |-> glyph, pos |-> pos,
                                  before |-> FlatFrame(luma, chroma),
                                  frame |-> FlatFrame(luma, chroma)]
                            ELSE NoLocals]

\* the remainder of us_overlay_draw_nv12: "Draw background if enabled", "Draw text"
\* (one character), the return
us_overlay_draw_nv12_pixels(t) ==
    \/ /\ pc[t] = "us_overlay_draw_nv12:rect"
       /\ local' = [local EXCEPT ![t].frame =
                       _draw_rect_nv12(@, BoxOrigin(local[t].pos[1], local[t].config.padding),
                                       BoxOrigin(local[t].pos[2], local[t].config.padding),
                                       8 * local[t].config.scale + 2 * local[t].config.padding,
                                       8 * local[t].config.scale + 2 * local[t].config.padding,
                                       local[t].config.bg, local[t].config.bg_alpha)]
       /\ Goto(t, "us_overlay_draw_nv12:char")
       /\ UNCHANGED <<us_g_blocking, mutex, blocking_config, overlay_config, raw_frame, ft>>
       /\ EncoderUntouched
    \/ /\ pc[t] = "us_overlay_draw_nv12:char"
       /\ local' = [local EXCEPT ![t].frame =
                       _draw_char_nv12(@, local[t].pos[1], local[t].pos[2], local[t].glyph,
                                       local[t].config.scale, local[t].config.fg)]
       /\ Goto(t, "us_overlay_draw_nv12:drawn")
       /\ UNCHANGED <<us_g_blocking, mutex, blocking_config, overlay_config, raw_frame, ft>>
       /\ EncoderUntouched
    \/ /\ pc[t] = "us_overlay_draw_nv12:drawn"
       /\ Return(t)
       /\ UNCHANGED <<us_g_blocking, mutex, blocking_config, overlay_config, raw_frame, ft>>
       /\ EncoderUntouched

NextOverlayDraw == us_overlay_draw_nv12_pixels("worker1")

OverlayDrawSpec == InitOverlayDraw /\ [][NextOverlayDraw]_vars

\* the worker has drawn the box and the letter with bg_alpha = 0
DrawnTransparent ==
    /\ pc["worker1"] = "us_overlay_draw_nv12:drawn"
    /\ local["worker1"].config.bg_alpha = 0

\* the pixels of the frame that the letter covers
Covered ==
    GlyphPixels(local["worker1"].glyph, local["worker1"].pos[1], local["worker1"].pos[2],
                local["worker1"].config.scale)

\* the chroma pair that the pixel p shares with its 2x2 block
ChromaOf(f, p) == f.uv[<<p[1] - (p[1] % 2), p[2] \div 2>>]

\* C24 as stated: drawn with bg_alpha = 0, every pixel that no glyph covers keeps
\* its Y, U and V, and every glyph pixel in the frame has the foreground Y
C24_UncoveredPixelsKeepYUV ==
    DrawnTransparent =>
        \A p \in DOMAIN local["worker1"].frame.y :
            IF p \in Covered
            THEN local["worker1"].frame.y[p] = local["worker1"].config.fg[1]
            ELSE /\ local["worker1"].frame.y[p] = local["worker1"].before.y[p]
                 /\ ChromaOf(local["worker1"].frame, p) = ChromaOf(local["worker1"].before, p)

\* C24, the part that holds: drawn with bg_alpha = 0, every pixel that no glyph covers
\* keeps its Y, every glyph pixel in the frame has the foreground Y, and a 2x2 block
\* keeps its U and V unless its even/even pixel is a glyph pixel, in which case the
\* block has the foreground U and V
C24_TransparentBoxKeepsLuma ==
    DrawnTransparent =>
        /\ \A p \in DOMAIN local["worker1"].frame.y :
              local["worker1"].frame.y[p] =
                  IF p \in Covered THEN local["worker1"].config.fg[1]
                  ELSE local["worker1"].before.y[p]
        /\ \A q \in DOMAIN local["worker1"].frame.uv :
              local["worker1"].frame.uv[q] =
                  IF <<q[1], 2 * q[2]>> \in Covered
                  THEN <<local["worker1"].config.fg[2], local["worker1"].config.fg[3]>>
                  ELSE local["worker1"].before.uv[q]

\* the letter is drawn on an all-Y=16 frame at scale 1 with a transparent box, and a
\* pixel of the box that the letter does not cover has the foreground chroma
C24_Witness ==
    /\ DrawnTransparent
    /\ local["worker1"].config.scale = 1
    /\ local["worker1"].config.padding = 2
    /\ local["worker1"].before.y[<<0, 0>>] = 16
    /\ local["worker1"].before.uv[<<0, 0>>] = <<60, 200>>
    /\ \E p \in Covered : local["worker1"].frame.y[p] = 235
    /\ \E p \in DOMAIN local["worker1"].frame.y :
          /\ p \notin Covered
          /\ local["worker1"].frame.y[p] = 16
          /\ ChromaOf(local["worker1"].frame, p) = <<90, 240>>

\* the positions of the trace at which the call name is made on handle id
CallsOn(name, id) == {i \in 1..Len(trace) : trace[i] = <<name, id>>}

\* C25: when compress returns, every frame descriptor it created has been released
\* exactly once, every packet it retrieved has been released exactly once, and the
\* packet before the frame descriptor; neither is released without having been created
C25_DescriptorsReleasedOnce ==
    op = "compress" =>
        /\ \A i \in 1..Len(trace) :
              /\ trace[i][1] = "mpp_frame_init" /\ trace[i][2] # NULL
                    => /\ Cardinality(CallsOn("mpp_frame_deinit", trace[i][2])) = 1
                       /\ \A j \in CallsOn("mpp_frame_deinit", trace[i][2]) : j > i
              /\ trace[i][1] = "mpp_packet"
                    => /\ Cardinality(CallsOn("mpp_packet_deinit", trace[i][2])) = 1
                       /\ \A j \in CallsOn("mpp_packet_deinit", trace[i][2]) :
                             /\ j > i
                             /\ \A k \in 1..Len(trace) :
                                   trace[k][1] = "mpp_frame_deinit" => j < k
              /\ trace[i][1] = "mpp_frame_deinit"
                    => \E j \in 1..(i - 1) : trace[j] = <<"mpp_frame_init", trace[i][2]>>
              /\ trace[i][1] = "mpp_packet_deinit"
                    => \E j \in 1..(i - 1) : trace[j] = <<"mpp_packet", trace[i][2]>>
        /\ \A id \in 1..Len(heap) : heap[id].kind \notin {"frame", "packet"}
        /\ ~dfree

\* a compress has succeeded: it created the frame descriptor, retrieved a packet, and
\* released the packet and then the frame descriptor
C25_Witness ==
    /\ op = "compress"
    /\ ret = 0
    /\ \E i, j, k, l \in 1..Len(trace) :
          /\ i < j /\ j < k /\ k < l
          /\ trace[i][1] = "mpp_frame_init"
          /\ trace[j][1] = "mpp_packet"
          /\ trace[k] = <<"mpp_packet_deinit", trace[j][2]>>
          /\ trace[l] = <<"mpp_frame_deinit", trace[i][2]>>

(***************************************************************************)
(* The scale setters of overlay.c and blocking.c.                          *)
(***************************************************************************)
\* the scale with the lower limit only
ClampScale_no_upper_limit(scale, max) == IF scale < 1 THEN 1 ELSE scale

\* "if (scale < 1) scale = 1; if (scale > max) scale = max;"
ClampScale(scale, max) == IF scale < 1 THEN 1 ELSE IF scale > max THEN max ELSE scale

\* the arguments of the scale setters; the parameter is a uint, IntMax stands for the
\* values above it
ScaleArgs == {0, 1, 4, 10, 11, 15, 16, IntMax}

\* us_overlay_set_scale(scale)
us_overlay_set_scale(t) ==
    \/ /\ us_g_overlay
       /\ \E scale \in ScaleArgs :
             Call(t, "us_overlay_set_scale:lock", [scale |-> ClampScale(scale, 10)])
       /\ UNCHANGED <<us_g_blocking, mutex, blocking_config, overlay_config, raw_frame, ft>>
       /\ EncoderUntouched
    \/ /\ pc[t] = "us_overlay_set_scale:lock"
       /\ MutexLock("us_g_overlay->mutex", t)
       /\ Goto(t, "us_overlay_set_scale:set")
       /\ UNCHANGED <<us_g_blocking, local, blocking_config, overlay_config, raw_frame, ft>>
       /\ EncoderUntouched
    \/ /\ pc[t] = "us_overlay_set_scale:set"
       /\ overlay_config' = [overlay_config EXCEPT !.scale = local[t].scale]
       /\ MutexUnlock("us_g_overlay->mutex", t)
       /\ Return(t)
       /\ UNCHANGED <<us_g_blocking, blocking_config, raw_frame, ft>>
       /\ EncoderUntouched

\* us_blocking_set_text_vocab_scale(scale)
us_blocking_set_text_vocab_scale(t) ==
    \/ /\ ~us_g_blocking.null
       /\ \E scale \in ScaleArgs :
             Call(t, "us_blocking_set_text_vocab_scale:lock", [scale |-> ClampScale(scale, 15)])
       /\ UNCHANGED <<us_g_blocking, mutex, blocking_config, overlay_config, raw_frame, ft>>
       /\ EncoderUntouched
    \/ /\ pc[t] = "us_blocking_set_text_vocab_scale:lock"
       /\ MutexLock("us_g_blocking->mutex", t)
       /\ Goto(t, "us_blocking_set_text_vocab_scale:set")
       /\ UNCHANGED <<us_g_blocking, local, blocking_config, overlay_config, raw_frame, ft>>
       /\ EncoderUntouched
    \/ /\ pc[t] = "us_blocking_set_text_vocab_scale:set"
       /\ blocking_config' = [blocking_config EXCEPT !.text_vocab_scale = local[t].scale]
       /\ MutexUnlock("us_g_blocking->mutex", t)
       /\ Return(t)
       /\ UNCHANGED <<us_g_blocking, overlay_config, raw_frame, ft>>
       /\ EncoderUntouched

\* us_blocking_set_text_stats_scale(scale)
us_blocking_set_text_stats_scale(t) ==
    \/ /\ ~us_g_blocking.null
       /\ \E scale \in ScaleArgs :
             Call(t, "us_blocking_set_text_stats_scale:lock", [scale |-> ClampScale(scale, 10)])
       /\ UNCHANGED <<us_g_blocking, mutex, blocking_config, overlay_config, raw_frame, ft>>
       /\ EncoderUntouched
    \/ /\ pc[t] = "us_blocking_set_text_stats_scale:lock"
       /\ MutexLock("us_g_blocking->mutex", t)
       /\ Goto(t, "us_blocking_set_text_stats_scale:set")
       /\ UNCHANGED <<us_g_blocking, local, blocking_config, overlay_config, raw_frame, ft>>
       /\ EncoderUntouched
    \/ /\ pc[t] = "us_blocking_set_text_stats_scale:set"
       /\ blocking_config' = [blocking_config EXCEPT !.text_stats_scale = local[t].scale]
       /\ MutexUnlock("us_g_blocking->mutex", t)
       /\ Return(t)
       /\ UNCHANGED <<us_g_blocking, overlay_config, raw_frame, ft>>
       /\ EncoderUntouched

\* two threads call the scale setters in any order with any arguments
NextScales ==
    \E t \in {"api1", "api2"} :
        \/ us_overlay_set_scale(t)
        \/ us_blocking_set_text_vocab_scale(t)
        \/ us_blocking_set_text_stats_scale(t)

ScalesSpec == LibInit /\ [][NextScales]_vars

\* C26: after the initialisation and any calls of the scale setters with any
\* arguments, the overlay scale is in 1..10, the vocabulary scale in 1..15 and the
\* stats scale in 1..10
C26_ScalesInRange ==
    /\ overlay_config.scale \in 1..10
    /\ blocking_config.text_vocab_scale \in 1..15
    /\ blocking_config.text_stats_scale \in 1..10

\* the setters have stored both upper limits and the lower limit, and each thread
\* has made all its calls
C26_Witness ==
    /\ overlay_config.scale = 10
    /\ blocking_config.text_vocab_scale = 15
    /\ blocking_config.text_stats_scale = 1
    /\ \A t \in {"api1", "api2"} : pc[t] = "idle" /\ local[t].calls = MaxApiCalls

\* C27: no path of compress writes outside the frame DMA buffer: the clear, the
\* aligned NV12 copy, the downscale and the overlay end at or below the size of the
\* buffer, which for NV12 is hor_stride * ver_stride * 3 / 2; a source of another
\* format is copied only when its used size is at most the size of the buffer, and
\* otherwise compress fails and writes nothing but the clear
C27_WritesInsideFrameBuffer ==
    op = "fill" =>
        LET r == local["worker1"].fill
        IN /\ \A w \in r.writes : w.base >= 0 /\ RunEnd(w) <= r.buf_size
           /\ src.format = "NV12" =>
                 r.buf_size = (MPP_ALIGN(target[1], 16) * MPP_ALIGN(target[2], 16) * 3) \div 2
           /\ src.format # "NV12" =>
                 IF src.used <= r.buf_size
                 THEN r.ret = 0 /\ r.path = "memcpy"
                 ELSE r.ret = -1 /\ r.writes = {Run(0, 0, 1, r.buf_size)}

\* a source that is not a multiple of 16 is downscaled and drawn on, and its last
\* chroma pair ends inside the buffer
C27_Witness ==
    /\ op = "fill"
    /\ src.format = "NV12"
    /\ src.width = 3841 /\ src.height = 2161
    /\ target = <<1920, 1080>>
    /\ local["worker1"].overlay
    /\ local["worker1"].fill.path = "_downscale_nv12"
    /\ \E w \in local["worker1"].fill.writes :
          w.base = 1920 * 1088 /\ w.rows = 540 /\ RunEnd(w) > 1920 * 1088

\* C28: a compress that fails after the configuration succeeded (it has reached the
\* creation of the frame descriptor) leaves the adapter ready, configured for the
\* tuple of that call, with its vendor context and buffers live, and unchanged when
\* the adapter was reused; and a compress that finds the adapter ready with its tuple
\* reuses the handles without a call that acquires or releases a vendor resource
C28_FailedCompressKeepsConfiguration ==
    [][CompressStep =>
         LET same == /\ enc.ready
                     /\ <<enc.width, enc.height>> = target'
                     /\ enc.mpp_format = _v4l2_to_mpp_format(src'.format)
         IN /\ (ret' = -1 /\ Has(trace', "mpp_frame_init")) =>
                  /\ enc'.ready
                  /\ <<enc'.width, enc'.height>> = target'
                  /\ enc'.mpp_format = _v4l2_to_mpp_format(src'.format)
                  /\ AllLive(enc', heap')
                  /\ same => enc' = enc
            /\ same =>
                  /\ \A i \in DOMAIN trace' : trace'[i][1] \notin ResourceCalls
                  /\ Handles(enc') = Handles(enc)
      ]_vars

\* the second compress has failed after the frame descriptor was created, as the first
\* had (no compress has ended with success), and it has reused the configuration that
\* the first left
C28_Witness ==
    /\ op = "compress"
    /\ now = 2
    /\ ret = -1
    /\ dest.encode_end_ts = 0
    /\ Has(trace, "mpp_frame_init")
    /\ \A i \in DOMAIN trace : trace[i][1] \notin ResourceCalls
    /\ enc.ready
    /\ AllLive(enc, heap)

\* C29: with the preview enabled and preview_w, preview_h > 0, the compositor never
\* calls the NV12 scaler with a destination width or height of zero
C29_ScalerSizeNeverZero ==
    \A t \in Threads :
        (/\ pc[t] \in {"us_blocking_composite_nv12:need_ft", "_draw_scaled_nv12:SIGFPE"}
         /\ local[t].config.preview_enabled
         /\ local[t].config.preview_w > 0
         /\ local[t].config.preview_h > 0) =>
            /\ local[t].preview.w # 0
            /\ local[t].preview.h # 0
            /\ pc[t] # "_draw_scaled_nv12:SIGFPE"

(***************************************************************************)
(* The functions of the two libraries that take a mutex, called from a     *)
(* worker, an HTTP handler and a reader of the raw frame at once.  A       *)
(* thread that is in a function goes on running, and a reader that was     *)
(* handed the raw frame releases it.                                       *)
(***************************************************************************)
LiveThreads == {"worker1", "api1", "reader"}

\* the libraries are initialised, both fonts are loaded and a vocabulary text is set
InitLive ==
    /\ life = "none"
    /\ enc = ZeroEnc
    /\ heap = <<>>
    /\ uaf = FALSE
    /\ dfree = FALSE
    /\ trace = <<>>
    /\ op = "none"
    /\ ret = 0
    /\ src = NoFrame
    /\ target = <<0, 0>>
    /\ dest = ZeroFrame
    /\ now = 0
    /\ us_g_encode_scale = "US_ENCODE_SCALE_NATIVE"
    /\ us_g_overlay = TRUE
    /\ us_g_blocking = [null |-> FALSE, enabled |-> FALSE, enabled_fast |-> FALSE]
    /\ pc = [t \in Threads |-> "idle"]
    /\ local = [t \in Threads |-> NoLocals]
    /\ mutex = [m \in Mutexes |-> "free"]
    /\ blocking_config = [ZeroBlockingConfig EXCEPT !.text_vocab = "hola"]
    /\ overlay_config = ZeroOverlayConfig
    /\ raw_frame = ZeroRawFrame
    /\ ft = [initialized |-> TRUE, face_vocab |-> TRUE, face_stats |-> TRUE]

NextLive ==
    \/ us_blocking_store_raw_frame("worker1")
    \/ us_blocking_composite_nv12("worker1")
    \/ us_overlay_draw_nv12("worker1")
    \/ us_blocking_set_text_stats("api1")
    \/ us_blocking_get_raw_frame("reader")
    \/ us_blocking_release_raw_frame("reader")

\* a step of thread t inside a function, the release of a held raw frame included
Continue(t) ==
    /\ pc[t] # "idle"
    /\ \/ us_blocking_store_raw_frame(t)
       \/ us_blocking_composite_nv12(t)
       \/ us_overlay_draw_nv12(t)
       \/ us_blocking_set_text_stats(t)
       \/ us_blocking_get_raw_frame(t)
       \/ us_blocking_release_raw_frame(t)

LiveSpec == InitLive /\ [][NextLive]_vars /\ \A t \in LiveThreads : WF_vars(Continue(t))

\* the mutexes that thread t holds
Held(t) == {m \in Mutexes : mutex[m] = t}

\* thread t is inside a library function
InCall(t) == pc[t] \notin {"idle", RawFrameHeld}

====
